---- MODULE Spec2Model ----
(***************************************************************************)
(* The ThermoWorks Cloud update coordinator                                *)
(* (custom_components/thermoworks_cloud): the refresh cycle                *)
(* async_update_data as a state machine whose steps are the resumptions    *)
(* from its awaits, the normalization of raw API records, and the          *)
(* snapshot the coordinator publishes.                                     *)
(*                                                                         *)
(* Python values are modelled as strings; None is the string "None".       *)
(* An object is a record; hasattr(obj, a) is  a \in DOMAIN obj.            *)
(***************************************************************************)
EXTENDS Integers, Sequences, FiniteSets, TLC

VARIABLES
    cloud_devices,      \* the account: raw Device records get_devices returns
    cloud_channels,     \* the account: serial -> number of channels that exist
    faults,             \* the cloud: channel fetches that have gone wrong so far
    api,                \* self.api: None or the session handle
    data,               \* self.data: the published snapshot
    last_update_success,\* coordinator.last_update_success
    last_exception,     \* the failure the last cycle raised, None if none
    pc,                 \* where async_update_data is suspended
    in_flight,          \* number of refresh cycles that have started and not ended
    api_devices,        \* local api_devices
    dev_i,              \* position of the for loop in api_devices
    channel,            \* loop variable of range(1, 10)
    devices,            \* local devices
    device_channels,    \* local device_channels
    device_channels_by_device, \* local device_channels_by_device
    calls,              \* history: the API calls the current cycle has completed
    refresh_no,         \* history: "none", "first" or "later" cycle started
    had_session,        \* history: authentication has succeeded at some time
    prev_data,          \* history: self.data when the current cycle started
    entities,           \* the sensors async_setup_entry has added
    arg,                \* the call of a function or accessor under examination
    ret,                \* what that call returned or raised
    states,             \* entity -> the state it has written last
    listeners,          \* the entities subscribed to the coordinator
    dispatch,           \* entity -> what its listener did on the last update
    options,            \* config_entry.options
    poll_interval,      \* self.poll_interval
    config_entries,     \* the config entries of the integration
    flow                \* the step the config flow is at

vars == <<cloud_devices, cloud_channels, faults, api, data, last_update_success,
          last_exception, pc, api_devices, dev_i, channel, devices,
          device_channels, device_channels_by_device, calls, refresh_no,
          had_session, in_flight, prev_data, entities, arg, ret, states,
          listeners, dispatch, options, poll_interval, config_entries, flow>>

history == <<refresh_no, had_session, prev_data>>

locals == <<api_devices, dev_i, channel, devices, device_channels,
            device_channels_by_device>>

world == <<cloud_devices, cloud_channels, faults>>

\* the state machine and the subscriptions of the sensors
hass == <<states, listeners, dispatch>>

\* the config entries and the config flow that creates them
flows == <<config_entries, flow>>

\* the configuration entry's options and what the coordinator read of them,
\* and the entries
config == <<options, poll_interval, flows>>

\* what is outside the coordinator: the sensor platform, the configuration
\* and the callers of the functions
outside == <<entities, arg, ret, hass, config>>

-----------------------------------------------------------------------------
(* Bounds of the model *)

\* longest device list of an account
MaxDevices == 2
\* most channel fetches of a run that end in a generic error or bring a
\* record that fails normalization
MaxFaults == 1
\* most channels per device of an account that has several devices
MaxChannels == 1

(* Program constants *)

\* range(1, 10): the end of the probed channel indices
ProbeStop == 10

None == "None"
Session == "ThermoworksCloud"

Serials == {"A", "B"}

-----------------------------------------------------------------------------
(* models.py *)

HasAttr(obj, a) == a \in DOMAIN obj

Hint(a, t) == [attr |-> a, typ |-> t]

\* get_type_hints(ThermoworksDevice): the annotations of BaseDevice
ThermoworksDeviceHints ==
    <<Hint("serial", "str"), Hint("device_id", "Optional[str]"),
      Hint("label", "Optional[str]"), Hint("device_name", "Optional[str]"),
      Hint("firmware", "Optional[str]"), Hint("battery", "Optional[float]"),
      Hint("battery_state", "Optional[str]"),
      Hint("wifi_strength", "Optional[float]")>>

\* get_type_hints(DeviceWithBattery): battery: float replaces the inherited one
DeviceWithBatteryHints ==
    [n \in DOMAIN ThermoworksDeviceHints |->
        IF ThermoworksDeviceHints[n].attr = "battery"
            THEN Hint("battery", "float") ELSE ThermoworksDeviceHints[n]]

\* get_type_hints(DeviceWithWifi): wifi_strength: float replaces the inherited one
DeviceWithWifiHints ==
    [n \in DOMAIN ThermoworksDeviceHints |->
        IF ThermoworksDeviceHints[n].attr = "wifi_strength"
            THEN Hint("wifi_strength", "float") ELSE ThermoworksDeviceHints[n]]

\* get_type_hints(ThermoworksChannel)
ThermoworksChannelHints ==
    <<Hint("number", "str"), Hint("value", "float"), Hint("units", "str"),
      Hint("status", "Optional[str]"), Hint("label", "Optional[str]")>>

\* the required attributes of a channel, as the cloud knows them
ChannelRequired == {"number", "value", "units"}

is_optional_type(tp) == tp \in {"Optional[str]", "Optional[float]"}

\* mutant of has_required_attributes: an attribute that is there passes,
\* null or not
has_required_attributes_AllowsNull(obj, hints) ==
    \A n \in DOMAIN hints :
        ~is_optional_type(hints[n].typ) => HasAttr(obj, hints[n].attr)

has_required_attributes(obj, hints) ==
    \A n \in DOMAIN hints :
        ~is_optional_type(hints[n].typ) =>
            HasAttr(obj, hints[n].attr) /\ obj[hints[n].attr] # None

\* the list of the names, in the order of the hints
get_missing_attributes(obj, hints) ==
    LET missing_attributes ==
            SelectSeq(hints, LAMBDA h :
                /\ ~is_optional_type(h.typ)
                /\ (~HasAttr(obj, h.attr) \/ obj[h.attr] = None))
    IN [n \in DOMAIN missing_attributes |-> missing_attributes[n].attr]

is_thermoworks_device(obj) == has_required_attributes(obj, ThermoworksDeviceHints)

is_thermoworks_channel(obj) == has_required_attributes(obj, ThermoworksChannelHints)

\* the ThermoworksDevice built from an accepted raw record; battery_state is
\* not passed to the constructor and keeps its default
from_api_device(device) ==
    [serial |-> device.serial,
     device_id |-> IF HasAttr(device, "device_id") THEN device.device_id ELSE None,
     label |-> device.label,
     device_name |-> device.device_name,
     firmware |-> device.firmware,
     battery |-> device.battery,
     battery_state |-> None,
     wifi_strength |-> device.wifi_strength]

from_api_channel(ch) ==
    [number |-> ch.number,
     value |-> ch.value,
     units |-> ch.units,
     status |-> ch.status,
     label |-> ch.label]

get_identifier(device) ==
    IF device.device_id # None /\ device.device_id # ""
        THEN device.device_id
        ELSE device.serial

-----------------------------------------------------------------------------
(* The cloud account the API client reads *)

RawDevice(s, d) ==
    [serial |-> s, device_id |-> d, label |-> None, device_name |-> None,
     firmware |-> None, battery |-> None, battery_state |-> None,
     wifi_strength |-> None]

SeqUpTo(S, n) == UNION {[1..k -> S] : k \in 0..n}

\* a record without serial, one without device id, one with both
RawDevices == {RawDevice(None, "D0"), RawDevice("A", None), RawDevice("B", "D1")}

\* how many channels a device may have: none, three, or all the probed indices
ChannelCounts == {0, 3, ProbeStop - 1}

\* the accounts: a device list and the number of channels of each serial; the
\* accounts with several devices have at most MaxChannels channels per device
Accounts ==
    {a \in SeqUpTo(RawDevices, MaxDevices) \X [Serials -> ChannelCounts \cup 0..MaxChannels] :
        \/ Len(a[1]) <= 1 /\ \A s \in Serials : a[2][s] \in ChannelCounts
        \/ Len(a[1]) > 1 /\ \A s \in Serials : a[2][s] <= MaxChannels}

Digits == <<"1", "2", "3", "4", "5", "6", "7", "8", "9">>

\* str(channel)
ToStr(i) == Digits[i]

UnitOf(i) == IF i = 3 THEN "H" ELSE IF i % 2 = 1 THEN "F" ELSE "C"

\* the record the cloud holds for channel i of the device with this serial
RawChannel(serial, i) ==
    [number |-> ToStr(i), value |-> serial \o ToStr(i), units |-> UnitOf(i),
     status |-> "NORMAL", label |-> None]

\* what a successful fetch of that channel can bring: the record, or the
\* record with one required attribute null
ChannelResponses(serial, i) ==
    {RawChannel(serial, i)} \cup
    {[RawChannel(serial, i) EXCEPT ![a] = None] : a \in ChannelRequired}

-----------------------------------------------------------------------------
(* coordinator.py: async_update_data *)

NoData == [is_none |-> TRUE]

\* last_exception while no cycle has failed
NoException == [type |-> "None"]

ThermoworksData(devs, chans) == [devices |-> devs, device_channels |-> chans]

EmptyMap == [k \in {} |-> <<>>]

\* device_channels_by_device[key] = value
Put(map, key, value) ==
    [k \in DOMAIN map \cup {key} |-> IF k = key THEN value ELSE map[k]]

Call(name, out) == [call |-> name, dev |-> 0, idx |-> 0, out |-> out]

Probe(i, c, out) == [call |-> "channel", dev |-> i, idx |-> c, out |-> out]

\* mutant of UpdateFailed: the text of the cause is left out of the message
UpdateFailed_DropsCause(err) ==
    [type |-> "UpdateFailed", message |-> "Error communicating with API"]

\* UpdateFailed(f"Error communicating with API: {err}")
UpdateFailed(err) ==
    [type |-> "UpdateFailed", message |-> "Error communicating with API: " \o err]

ResetLocals ==
    /\ api_devices' = <<>>
    /\ dev_i' = 0
    /\ channel' = 0
    /\ devices' = <<>>
    /\ device_channels' = <<>>
    /\ device_channels_by_device' = EmptyMap

\* mutant of Fail: the failure handler drops the published snapshot
Fail_DropsSnapshot(err) ==
    /\ pc' = "idle"
    /\ last_update_success' = FALSE
    /\ last_exception' = UpdateFailed(err)
    /\ data' = NoData
    /\ in_flight' = in_flight - 1
    /\ ResetLocals

\* mutant of Fail: the except clause does not raise, and the cycle neither
\* returns nor fails
Fail_NeverRaised(err) ==
    /\ pc' = "except"
    /\ UNCHANGED <<last_update_success, last_exception, data, in_flight>>
    /\ ResetLocals

\* raise UpdateFailed(...) from the except clause: the cycle ends, the
\* coordinator keeps self.data and records the failure
Fail(err) ==
    /\ pc' = "idle"
    /\ last_update_success' = FALSE
    /\ last_exception' = UpdateFailed(err)
    /\ data' = data
    /\ in_flight' = in_flight - 1
    /\ ResetLocals

\* return ThermoworksData(...): what is returned is stored in self.data
Commit(devs, chans) ==
    /\ pc' = "idle"
    /\ last_update_success' = TRUE
    /\ last_exception' = NoException
    /\ data' = ThermoworksData(devs, chans)
    /\ in_flight' = in_flight - 1
    /\ ResetLocals

\* mutant of NextAccepted: the except clause does not skip the record
NextAccepted_TakesRejected(raw, i) == i

\* the first position at or after i of a raw record that from_api_device
\* accepts; the records before it are skipped by the except clause
NextAccepted(raw, i) ==
    LET ok == {j \in i..Len(raw) : is_thermoworks_device(raw[j])}
    IN IF ok = {} THEN Len(raw) + 1
       ELSE CHOOSE j \in ok : \A k \in ok : j <= k

\* mutant of ForDevices: a rejected record ends the loop (break for continue)
ForDevices_StopsAtRejected(raw, i, devs, chans) ==
    IF i > Len(raw) \/ ~is_thermoworks_device(raw[i])
        THEN Commit(devs, chans)
        ELSE /\ pc' = "get_channel"
             /\ api_devices' = raw
             /\ dev_i' = i
             /\ channel' = 1
             /\ devices' = Append(devs, from_api_device(raw[i]))
             /\ device_channels' = <<>>
             /\ device_channels_by_device' = chans
             /\ UNCHANGED <<data, last_update_success, last_exception, in_flight>>

\* mutant of ForDevices: the devices are published before their channels
\* have been fetched
ForDevices_PublishesEarly(raw, i, devs, chans) ==
    LET j == NextAccepted(raw, i) IN
    IF j > Len(raw)
        THEN Commit(devs, chans)
        ELSE /\ pc' = "get_channel"
             /\ api_devices' = raw
             /\ dev_i' = j
             /\ channel' = 1
             /\ devices' = Append(devs, from_api_device(raw[j]))
             /\ device_channels' = <<>>
             /\ device_channels_by_device' = chans
             /\ data' = ThermoworksData(devices', chans)
             /\ UNCHANGED <<last_update_success, last_exception, in_flight>>

\* mutant of ForDevices: a cycle that ends without a device is a failure
ForDevices_FailsWhenEmpty(raw, i, devs, chans) ==
    LET j == NextAccepted(raw, i) IN
    IF j > Len(raw)
        THEN IF devs = <<>> THEN Fail("no devices") ELSE Commit(devs, chans)
        ELSE /\ pc' = "get_channel"
             /\ api_devices' = raw
             /\ dev_i' = j
             /\ channel' = 1
             /\ devices' = Append(devs, from_api_device(raw[j]))
             /\ device_channels' = <<>>
             /\ device_channels_by_device' = chans
             /\ UNCHANGED <<data, last_update_success, last_exception, in_flight>>

\* the for loop over api_devices from position i up to its next await: the
\* first channel fetch of the next accepted device, or the return
ForDevices(raw, i, devs, chans) ==
    LET j == NextAccepted(raw, i) IN
    IF j > Len(raw)
        THEN Commit(devs, chans)
        ELSE /\ pc' = "get_channel"
             /\ api_devices' = raw
             /\ dev_i' = j
             /\ channel' = 1
             /\ devices' = Append(devs, from_api_device(raw[j]))
             /\ device_channels' = <<>>
             /\ device_channels_by_device' = chans
             /\ UNCHANGED <<data, last_update_success, last_exception, in_flight>>

\* mutant of EndChannels: a device without channels gets no entry
EndChannels_SkipsEmpty(chs) ==
    ForDevices(api_devices, dev_i + 1, devices,
               IF chs = <<>> THEN device_channels_by_device
               ELSE Put(device_channels_by_device,
                        get_identifier(devices[Len(devices)]), chs))

\* the end of the channel loop of the current device
EndChannels(chs) ==
    ForDevices(api_devices, dev_i + 1, devices,
               Put(device_channels_by_device,
                   get_identifier(devices[Len(devices)]), chs))

\* mutant of NextChannel: the loop goes on to the index ProbeStop itself
NextChannel_ProbesStop(chs) ==
    IF channel + 1 <= ProbeStop
        THEN /\ channel' = channel + 1
             /\ device_channels' = chs
             /\ UNCHANGED <<pc, api_devices, dev_i, devices,
                            device_channels_by_device, data,
                            last_update_success, last_exception, in_flight>>
        ELSE EndChannels(chs)

\* the channel loop after the fetch of index channel, with device_channels = chs
NextChannel(chs) ==
    IF channel + 1 < ProbeStop
        THEN /\ channel' = channel + 1
             /\ device_channels' = chs
             /\ UNCHANGED <<pc, api_devices, dev_i, devices,
                            device_channels_by_device, data,
                            last_update_success, last_exception, in_flight>>
        ELSE EndChannels(chs)

\* mutant of Enter: every cycle authenticates
Enter_AlwaysAuthenticates == pc' = "build_auth"

\* mutant of Enter: with a session the cycle starts at the device-list fetch
Enter_FetchesDevicesFirst == pc' = IF api = None THEN "build_auth" ELSE "get_devices"

\* async_update_data is entered: if self.api is None, authenticate first
Enter == pc' = IF api = None THEN "build_auth" ELSE "get_user"

\* mutant of Tick: the timer starts a cycle whether or not one is in flight
Tick_Unguarded ==
    /\ in_flight' = in_flight + 1
    /\ Enter
    /\ calls' = <<>>
    /\ UNCHANGED outside
    /\ refresh_no' = IF refresh_no = "none" THEN "first" ELSE "later"
    /\ prev_data' = data
    /\ UNCHANGED <<world, api, data, last_update_success, last_exception,
                   locals, had_session>>

\* the coordinator's timer starts a cycle when none is in flight
Tick ==
    /\ pc = "idle"
    /\ in_flight' = in_flight + 1
    /\ Enter
    /\ calls' = <<>>
    /\ UNCHANGED outside
    /\ refresh_no' = IF refresh_no = "none" THEN "first" ELSE "later"
    /\ prev_data' = data
    /\ UNCHANGED <<world, api, data, last_update_success, last_exception,
                   locals, had_session>>

\* mutant of AuthOk: the session handle is not stored in self.api
AuthOk_DropsHandle ==
    /\ pc = "build_auth"
    /\ had_session' = TRUE
    /\ pc' = "get_user"
    /\ calls' = Append(calls, Call("build_auth", "ok"))
    /\ UNCHANGED outside
    /\ UNCHANGED <<world, api, data, last_update_success, last_exception,
                   locals, refresh_no, prev_data, in_flight>>

AuthOk ==
    /\ pc = "build_auth"
    /\ api' = Session
    /\ had_session' = TRUE
    /\ pc' = "get_user"
    /\ calls' = Append(calls, Call("build_auth", "ok"))
    /\ UNCHANGED outside
    /\ UNCHANGED <<world, data, last_update_success, last_exception, locals,
                   refresh_no, prev_data, in_flight>>

AuthFail ==
    /\ pc = "build_auth"
    /\ Fail("AuthenticationError")
    /\ calls' = Append(calls, Call("build_auth", "error"))
    /\ UNCHANGED outside
    /\ UNCHANGED <<world, api, history>>

UserOk ==
    /\ pc = "get_user"
    /\ pc' = "get_devices"
    /\ calls' = Append(calls, Call("get_user", "ok"))
    /\ UNCHANGED outside
    /\ UNCHANGED <<world, api, data, last_update_success, last_exception,
                   locals, history, in_flight>>

\* mutant of UserNoAccount: the missing account id is not tested and the
\* cycle goes on to the device-list fetch
UserNoAccount_GoesOn ==
    /\ pc = "get_user"
    /\ pc' = "get_devices"
    /\ calls' = Append(calls, Call("get_user", "no_account"))
    /\ UNCHANGED outside
    /\ UNCHANGED <<world, api, data, last_update_success, last_exception,
                   locals, history, in_flight>>

\* user.account_id is None
UserNoAccount ==
    /\ pc = "get_user"
    /\ Fail("No account ID found for user")
    /\ calls' = Append(calls, Call("get_user", "no_account"))
    /\ UNCHANGED outside
    /\ UNCHANGED <<world, api, history>>

UserFail ==
    /\ pc = "get_user"
    /\ Fail("get_user failed")
    /\ calls' = Append(calls, Call("get_user", "error"))
    /\ UNCHANGED outside
    /\ UNCHANGED <<world, api, history>>

DevicesOk ==
    /\ pc = "get_devices"
    /\ ForDevices(cloud_devices, 1, <<>>, EmptyMap)
    /\ calls' = Append(calls, Call("get_devices", "ok"))
    /\ UNCHANGED outside
    /\ UNCHANGED <<world, api, history>>

DevicesFail ==
    /\ pc = "get_devices"
    /\ Fail("get_devices failed")
    /\ calls' = Append(calls, Call("get_devices", "error"))
    /\ UNCHANGED outside
    /\ UNCHANGED <<world, api, history>>

\* the serial the channel fetch is issued with
ProbedSerial == devices[Len(devices)].serial

ChannelExists == channel <= cloud_channels[ProbedSerial]

\* mutant of ChannelFound: the channel is put at the head of the list
ChannelFound_Prepends ==
    /\ pc = "get_channel"
    /\ ChannelExists
    /\ \E api_channel \in ChannelResponses(ProbedSerial, channel) :
        /\ is_thermoworks_channel(api_channel)
        /\ NextChannel(<<from_api_channel(api_channel)>> \o device_channels)
    /\ calls' = Append(calls, Probe(dev_i, channel, "ok"))
    /\ UNCHANGED outside
    /\ UNCHANGED <<world, api, history>>

\* get_device_channel returned a record that from_api_channel accepts
ChannelFound ==
    /\ pc = "get_channel"
    /\ ChannelExists
    /\ \E api_channel \in ChannelResponses(ProbedSerial, channel) :
        /\ is_thermoworks_channel(api_channel)
        /\ NextChannel(Append(device_channels, from_api_channel(api_channel)))
    /\ calls' = Append(calls, Probe(dev_i, channel, "ok"))
    /\ UNCHANGED outside
    /\ UNCHANGED <<world, api, history>>

\* mutant of ChannelInvalid: the record is appended without validation
ChannelInvalid_Appends ==
    /\ pc = "get_channel"
    /\ ChannelExists
    /\ faults < MaxFaults
    /\ faults' = faults + 1
    /\ \E api_channel \in ChannelResponses(ProbedSerial, channel) :
        /\ ~is_thermoworks_channel(api_channel)
        /\ NextChannel(Append(device_channels, from_api_channel(api_channel)))
    /\ calls' = Append(calls, Probe(dev_i, channel, "invalid"))
    /\ UNCHANGED outside
    /\ UNCHANGED <<cloud_devices, cloud_channels, api, history>>

\* get_device_channel returned a record that from_api_channel rejects
ChannelInvalid ==
    /\ pc = "get_channel"
    /\ ChannelExists
    /\ faults < MaxFaults
    /\ faults' = faults + 1
    /\ \E api_channel \in ChannelResponses(ProbedSerial, channel) :
        /\ ~is_thermoworks_channel(api_channel)
        /\ NextChannel(device_channels)
    /\ calls' = Append(calls, Probe(dev_i, channel, "invalid"))
    /\ UNCHANGED outside
    /\ UNCHANGED <<cloud_devices, cloud_channels, api, history>>

\* mutant of ChannelNotFound: continue for break
ChannelNotFound_Continues ==
    /\ pc = "get_channel"
    /\ ~ChannelExists
    /\ NextChannel(device_channels)
    /\ calls' = Append(calls, Probe(dev_i, channel, "not_found"))
    /\ UNCHANGED outside
    /\ UNCHANGED <<world, api, history>>

\* get_device_channel raised ResourceNotFoundError: break
ChannelNotFound ==
    /\ pc = "get_channel"
    /\ ~ChannelExists
    /\ EndChannels(device_channels)
    /\ calls' = Append(calls, Probe(dev_i, channel, "not_found"))
    /\ UNCHANGED outside
    /\ UNCHANGED <<world, api, history>>

\* mutant of ChannelError: break for continue
ChannelError_Breaks ==
    /\ pc = "get_channel"
    /\ faults < MaxFaults
    /\ faults' = faults + 1
    /\ EndChannels(device_channels)
    /\ calls' = Append(calls, Probe(dev_i, channel, "error"))
    /\ UNCHANGED outside
    /\ UNCHANGED <<cloud_devices, cloud_channels, api, history>>

\* mutant of ChannelError: the exception reaches the outer except clause
ChannelError_FailsCycle ==
    /\ pc = "get_channel"
    /\ faults < MaxFaults
    /\ faults' = faults + 1
    /\ Fail("get_device_channel failed")
    /\ calls' = Append(calls, Probe(dev_i, channel, "error"))
    /\ UNCHANGED outside
    /\ UNCHANGED <<cloud_devices, cloud_channels, api, history>>

\* get_device_channel raised any other exception: continue
ChannelError ==
    /\ pc = "get_channel"
    /\ faults < MaxFaults
    /\ faults' = faults + 1
    /\ NextChannel(device_channels)
    /\ calls' = Append(calls, Probe(dev_i, channel, "error"))
    /\ UNCHANGED outside
    /\ UNCHANGED <<cloud_devices, cloud_channels, api, history>>

\* no function or accessor has been called
NoCall == [fn |-> "none"]

\* return None
ReturnNone == [raises |-> <<>>, value |-> <<>>]

\* return v
Return(v) == [raises |-> <<>>, value |-> <<v>>]

\* raise exc
Raise(exc) == [raises |-> <<exc>>, value |-> <<>>]

CONF_SCAN_INTERVAL == "scan_interval"

DEFAULT_SCAN_INTERVAL_SECONDS == 1800

MIN_SCAN_INTERVAL_SECONDS == 5

\* mapping.get(key, default)
Get(mapping, key, default) ==
    IF key \in DOMAIN mapping THEN mapping[key] ELSE default

\* no config flow is running and no entry exists but the one at hand
NoFlow ==
    /\ config_entries = {}
    /\ flow = "none"

\* no sensor has been added to the state machine
NotSetUp ==
    /\ states = <<>>
    /\ listeners = {}
    /\ dispatch = <<>>

\* the coordinator after __init__, before any refresh
Constructed ==
    /\ poll_interval = Get(options, CONF_SCAN_INTERVAL,
                           DEFAULT_SCAN_INTERVAL_SECONDS)
    /\ api = None
    /\ data = NoData
    /\ last_update_success = TRUE
    /\ last_exception = NoException
    /\ pc = "idle"
    /\ api_devices = <<>>
    /\ dev_i = 0
    /\ channel = 0
    /\ devices = <<>>
    /\ device_channels = <<>>
    /\ device_channels_by_device = EmptyMap
    /\ calls = <<>>
    /\ refresh_no = "none"
    /\ had_session = FALSE
    /\ in_flight = 0
    /\ prev_data = NoData

Init ==
    /\ \E a \in Accounts : cloud_devices = a[1] /\ cloud_channels = a[2]
    /\ faults = 0
    /\ options = EmptyMap
    /\ NoFlow
    /\ Constructed
    /\ entities = <<>>
    /\ NotSetUp
    /\ arg = NoCall
    /\ ret = ReturnNone

Next ==
    \/ Tick
    \/ AuthOk
    \/ AuthFail
    \/ UserOk
    \/ UserNoAccount
    \/ UserFail
    \/ DevicesOk
    \/ DevicesFail
    \/ ChannelFound
    \/ ChannelInvalid
    \/ ChannelNotFound
    \/ ChannelError

Spec == Init /\ [][Next]_vars

\* the refresh cycles again, for what is claimed of the calls of one cycle
SpecCalls == Init /\ [][Next]_vars

\* a network call of the running cycle returns a result or an error
CallReturns ==
    \/ AuthOk
    \/ AuthFail
    \/ UserOk
    \/ UserNoAccount
    \/ UserFail
    \/ DevicesOk
    \/ DevicesFail
    \/ ChannelFound
    \/ ChannelInvalid
    \/ ChannelNotFound
    \/ ChannelError

\* an account without devices, and one with a record that normalization
\* rejects, a device with a channel at every probed index and a device
\* with one channel
LiveAccounts ==
    {<< <<>>, [s \in Serials |-> 0] >>,
     << <<RawDevice(None, "D0"), RawDevice("A", None), RawDevice("B", "D1")>>,
        [s \in Serials |-> IF s = "A" THEN ProbeStop - 1 ELSE 1] >>}

InitLive ==
    /\ \E a \in LiveAccounts : cloud_devices = a[1] /\ cloud_channels = a[2]
    /\ faults = 0
    /\ options = EmptyMap
    /\ NoFlow
    /\ Constructed
    /\ entities = <<>>
    /\ NotSetUp
    /\ arg = NoCall
    /\ ret = ReturnNone

\* the refresh cycles when every network call that is awaited returns and
\* the timer keeps ticking
SpecLive == InitLive /\ [][Next]_vars /\ WF_calls(CallReturns) /\ WF_pc(Tick)

\* accounts in which two records resolve to the same identifier: equal
\* device ids, and a device id that is the serial of another record, in
\* either order; each device has one channel
ClashAccounts ==
    {<< devs, [s \in Serials |-> 1] >> :
        devs \in {<<RawDevice("A", "D1"), RawDevice("B", "D1")>>,
                  <<RawDevice("A", None), RawDevice("B", "A")>>,
                  <<RawDevice("B", "A"), RawDevice("A", None)>>}}

InitClash ==
    /\ \E a \in ClashAccounts : cloud_devices = a[1] /\ cloud_channels = a[2]
    /\ faults = 0
    /\ options = EmptyMap
    /\ NoFlow
    /\ Constructed
    /\ entities = <<>>
    /\ NotSetUp
    /\ arg = NoCall
    /\ ret = ReturnNone

\* the refresh cycles of an account with clashing identifiers
SpecClash == InitClash /\ [][Next]_vars

-----------------------------------------------------------------------------
(* coordinator.py: the accessors *)

\* reading an attribute of self.data while it holds no ThermoworksData
AttributeError == [type |-> "AttributeError"]

\* for device in self.data.devices: the first whose identifier is device_id
get_device_by_id(self_data, device_id) ==
    IF self_data = NoData THEN Raise(AttributeError)
    ELSE LET found == SelectSeq(self_data.devices,
                                LAMBDA device : get_identifier(device) = device_id)
         IN IF found = <<>> THEN ReturnNone ELSE Return(Head(found))

\* for device_channel in self.data.device_channels.get(device_id, []): the
\* first whose number is channel_id
get_device_channel_by_id(self_data, device_id, channel_id) ==
    IF self_data = NoData THEN Raise(AttributeError)
    ELSE LET device_channels_of ==
                IF device_id \in DOMAIN self_data.device_channels
                    THEN self_data.device_channels[device_id] ELSE <<>>
             found == SelectSeq(device_channels_of,
                                LAMBDA device_channel : device_channel.number = channel_id)
         IN IF found = <<>> THEN ReturnNone ELSE Return(Head(found))

\* the identifiers the callers ask for: a serial that is an identifier, a
\* device id, a serial that is not an identifier, and one of no device
LookupIds == {"A", "D1", "B", "D9"}

LookupNumbers == {"1", "2"}

\* mutant of GetDeviceById: the accessor reads the list the cycle in progress
\* is building
GetDeviceById_ReadsCycle ==
    /\ \E device_id \in LookupIds :
        /\ arg' = [fn |-> "get_device_by_id", device_id |-> device_id,
                   channel_id |-> None]
        /\ ret' = get_device_by_id(
                    IF pc = "get_channel"
                        THEN ThermoworksData(devices, device_channels_by_device)
                        ELSE data, device_id)
    /\ UNCHANGED <<world, api, data, last_update_success, last_exception, pc,
                   in_flight, locals, calls, history, entities, hass, config>>

\* a caller calls coordinator.get_device_by_id(device_id)
GetDeviceById ==
    /\ \E device_id \in LookupIds :
        /\ arg' = [fn |-> "get_device_by_id", device_id |-> device_id,
                   channel_id |-> None]
        /\ ret' = get_device_by_id(data, device_id)
    /\ UNCHANGED <<world, api, data, last_update_success, last_exception, pc,
                   in_flight, locals, calls, history, entities, hass, config>>

\* a caller calls coordinator.get_device_channel_by_id(device_id, channel_id)
GetDeviceChannelById ==
    /\ \E device_id \in LookupIds, channel_id \in LookupNumbers :
        /\ arg' = [fn |-> "get_device_channel_by_id", device_id |-> device_id,
                   channel_id |-> channel_id]
        /\ ret' = get_device_channel_by_id(data, device_id, channel_id)
    /\ UNCHANGED <<world, api, data, last_update_success, last_exception, pc,
                   in_flight, locals, calls, history, entities, hass, config>>

\* the accounts of the runs with accessor calls: a device known by its
\* serial with one channel and a device known by its device id with none;
\* an account without devices
LookupAccounts ==
    {<< <<RawDevice("A", None), RawDevice("B", "D1")>>,
        [s \in Serials |-> IF s = "A" THEN 1 ELSE 0] >>,
     << <<>>, [s \in Serials |-> 0] >>}

InitLookup ==
    /\ \E a \in LookupAccounts : cloud_devices = a[1] /\ cloud_channels = a[2]
    /\ faults = 0
    /\ options = EmptyMap
    /\ NoFlow
    /\ Constructed
    /\ entities = <<>>
    /\ NotSetUp
    /\ arg = NoCall
    /\ ret = ReturnNone

NextLookup ==
    \/ Next
    \/ GetDeviceById
    \/ GetDeviceChannelById

\* the coordinator with callers of its accessors
SpecLookup == InitLookup /\ [][NextLookup]_vars

-----------------------------------------------------------------------------
(* models.py: normalization of single records *)

MissingRequiredAttributeError(missing_attributes, object_type) ==
    [type |-> "MissingRequiredAttributeError",
     missing_attributes |-> missing_attributes,
     object_type |-> object_type]

\* ThermoworksDevice.from_api_device(device), with what it raises
try_from_api_device(device) ==
    IF ~is_thermoworks_device(device)
        THEN Raise(MissingRequiredAttributeError(
                get_missing_attributes(device, ThermoworksDeviceHints),
                "ThermoworksDevice"))
        ELSE Return(from_api_device(device))

\* ThermoworksChannel.from_api_channel(channel), with what it raises
try_from_api_channel(api_channel) ==
    IF ~is_thermoworks_channel(api_channel)
        THEN Raise(MissingRequiredAttributeError(
                get_missing_attributes(api_channel, ThermoworksChannelHints),
                "ThermoworksChannel"))
        ELSE Return(from_api_channel(api_channel))

\* the object without the attribute a
WithoutAttr(obj, a) == [x \in DOMAIN obj \ {a} |-> obj[x]]

\* raw device records: serial and device id null, empty or set, or not
\* there at all; battery and wifi strength null or set; and records with
\* every optional attribute set, the battery charging or not
RawDeviceInputs ==
    LET full == {[RawDevice(s, d) EXCEPT !.battery = b, !.wifi_strength = w] :
                    s \in {None, "", "A"}, d \in {None, "", "D1"},
                    b \in {None, "55"}, w \in {None, "-70"}}
        described == {[serial |-> "A", device_id |-> d, label |-> "Grill",
                       device_name |-> "node", firmware |-> "1.0.4",
                       battery |-> "55", battery_state |-> bs,
                       wifi_strength |-> "-70"] :
                        d \in {None, "D1"},
                        bs \in {None, "charging", "discharging"}}
    IN full \cup {WithoutAttr(r, "serial") : r \in full}
            \cup {WithoutAttr(r, "device_id") : r \in full}
            \cup described

\* raw channel records: each required attribute set, null or not there;
\* the status null or set
RawChannelInputs ==
    LET full == {[number |-> n, value |-> v, units |-> u, status |-> st,
                  label |-> None] :
                    n \in {None, "1"}, v \in {None, "72.5"}, u \in {None, "F"},
                    st \in {None, "NORMAL"}}
    IN full \cup {WithoutAttr(r, a) : r \in full, a \in ChannelRequired}
            \cup {WithoutAttr(WithoutAttr(r, "number"), "units") : r \in full}
            \cup {[number |-> "2", value |-> "40.1", units |-> "H",
                   status |-> st, label |-> "Pit"] : st \in {None, "NORMAL", "ERROR"}}

\* ThermoworksDevice.from_api_device is called with the record drawn
FromApiDevice ==
    /\ arg.fn = "none"
    /\ arg.obj \in RawDeviceInputs
    /\ arg' = [fn |-> "from_api_device", obj |-> arg.obj]
    /\ ret' = try_from_api_device(arg.obj)
    /\ UNCHANGED <<world, api, data, last_update_success, last_exception, pc,
                   in_flight, locals, calls, history, entities, hass, config>>

\* ThermoworksChannel.from_api_channel is called with the record drawn
FromApiChannel ==
    /\ arg.fn = "none"
    /\ arg.obj \in RawChannelInputs
    /\ arg' = [fn |-> "from_api_channel", obj |-> arg.obj]
    /\ ret' = try_from_api_channel(arg.obj)
    /\ UNCHANGED <<world, api, data, last_update_success, last_exception, pc,
                   in_flight, locals, calls, history, entities, hass, config>>

\* get_identifier is called on the device from_api_device returned
GetIdentifier ==
    /\ arg.fn = "from_api_device"
    /\ ret.value # <<>>
    /\ arg' = [fn |-> "get_identifier", obj |-> ret.value[1]]
    /\ ret' = Return(get_identifier(ret.value[1]))
    /\ UNCHANGED <<world, api, data, last_update_success, last_exception, pc,
                   in_flight, locals, calls, history, entities, hass, config>>

\* a raw record has been received; the coordinator is not refreshing
InitModels ==
    /\ cloud_devices = <<>>
    /\ cloud_channels = [s \in Serials |-> 0]
    /\ faults = 0
    /\ options = EmptyMap
    /\ NoFlow
    /\ Constructed
    /\ entities = <<>>
    /\ NotSetUp
    /\ \E obj \in RawDeviceInputs \cup RawChannelInputs :
            arg = [fn |-> "none", obj |-> obj]
    /\ ret = ReturnNone

NextModels ==
    \/ FromApiDevice
    \/ FromApiChannel
    \/ GetIdentifier

\* the normalization of one record
SpecModels == InitModels /\ [][NextModels]_vars

-----------------------------------------------------------------------------
(* sensor.py: async_setup_entry *)

BatterySensor(entity_id, device) ==
    [class |-> "BatterySensor", entity_id |-> entity_id, device |-> device]

SignalSensor(entity_id, device) ==
    [class |-> "SignalSensor", entity_id |-> entity_id, device |-> device]

HumiditySensor(entity_id, device_serial, device_channel) ==
    [class |-> "HumiditySensor", entity_id |-> entity_id,
     device_serial |-> device_serial, device_channel |-> device_channel]

TemperatureSensor(entity_id, device_serial, device_channel) ==
    [class |-> "TemperatureSensor", entity_id |-> entity_id,
     device_serial |-> device_serial, device_channel |-> device_channel]

\* mutant of DeviceSensors: the signal sensor is created in the branch of
\* the battery sensor
DeviceSensors_SignalNeedsBattery(device) ==
    IF has_required_attributes(device, DeviceWithBatteryHints)
        THEN <<BatterySensor(get_identifier(device) \o "_battery", device)>> \o
             (IF has_required_attributes(device, DeviceWithWifiHints)
                THEN <<SignalSensor(get_identifier(device) \o "_signal", device)>>
                ELSE <<>>)
        ELSE <<>>

\* the battery sensor and the signal sensor of a device, each created if the
\* device complies with its protocol
DeviceSensors(device) ==
    (IF has_required_attributes(device, DeviceWithBatteryHints)
        THEN <<BatterySensor(get_identifier(device) \o "_battery", device)>>
        ELSE <<>>) \o
    (IF has_required_attributes(device, DeviceWithWifiHints)
        THEN <<SignalSensor(get_identifier(device) \o "_signal", device)>>
        ELSE <<>>)

RECURSIVE ChannelSensors(_, _)

\* mutant of ChannelSensors: a channel of any unit but "H" gets a
\* temperature sensor
ChannelSensors_TemperatureForOthers(device, chans) ==
    IF chans = <<>> THEN <<>>
    ELSE LET device_channel == Head(chans)
             name == get_identifier(device) \o "_ch_" \o device_channel.number
         IN (IF device_channel.units = "H"
                THEN <<HumiditySensor(name \o "_humidity",
                                      get_identifier(device), device_channel)>>
             ELSE <<TemperatureSensor(name \o "_temperature",
                                      get_identifier(device), device_channel)>>)
            \o ChannelSensors(device, Tail(chans))

\* the sensors of the channels of a device: humidity for the unit "H",
\* temperature for "F" and "C", none for any other unit
ChannelSensors(device, chans) ==
    IF chans = <<>> THEN <<>>
    ELSE LET device_channel == Head(chans)
             name == get_identifier(device) \o "_ch_" \o device_channel.number
         IN (IF device_channel.units = "H"
                THEN <<HumiditySensor(name \o "_humidity",
                                      get_identifier(device), device_channel)>>
             ELSE IF device_channel.units \in {"F", "C"}
                THEN <<TemperatureSensor(name \o "_temperature",
                                         get_identifier(device), device_channel)>>
             ELSE <<>>)
            \o ChannelSensors(device, Tail(chans))

RECURSIVE new_entities(_, _)
\* the list async_setup_entry builds from the devices of the snapshot
new_entities(self_data, devs) ==
    IF devs = <<>> THEN <<>>
    ELSE DeviceSensors(Head(devs))
         \o ChannelSensors(Head(devs),
                IF get_identifier(Head(devs)) \in DOMAIN self_data.device_channels
                    THEN self_data.device_channels[get_identifier(Head(devs))]
                    ELSE <<>>)
         \o new_entities(self_data, Tail(devs))

ValueError == [type |-> "ValueError"]

\* TemperatureSensor.native_unit_of_measurement; the class attribute of
\* HumiditySensor
native_unit_of_measurement(sensor) ==
    IF sensor.class = "HumiditySensor" THEN Return("PERCENTAGE")
    ELSE IF sensor.device_channel.units = "F" THEN Return("FAHRENHEIT")
    ELSE IF sensor.device_channel.units = "C" THEN Return("CELSIUS")
    ELSE Raise(ValueError)

\* async_setup_entry runs over the snapshot and adds the sensors it built
AsyncSetupEntry ==
    /\ arg.fn = "none"
    /\ data # NoData
    /\ arg' = [fn |-> "async_setup_entry"]
    /\ ret' = ReturnNone
    /\ entities' = entities \o new_entities(data, data.devices)
    /\ UNCHANGED <<world, api, data, last_update_success, last_exception, pc,
                   in_flight, locals, calls, history, hass, config>>

\* the devices a snapshot can hold: known by serial or by device id, with
\* and without a battery level, with and without a wifi strength
SetupDevices ==
    {from_api_device([RawDevice(id[1], id[2]) EXCEPT !.battery = b,
                                                    !.wifi_strength = w]) :
        id \in {<<"A", None>>, <<"B", "D1">>},
        b \in {None, "55"}, w \in {None, "-70"}}

\* the channel lists a snapshot can hold for a device: none; a Fahrenheit,
\* a Celsius and a humidity channel; one channel of another unit
SetupChannelLists ==
    {<<>>,
     [i \in 1..3 |-> from_api_channel(RawChannel("A", i))],
     <<from_api_channel([RawChannel("A", 1) EXCEPT !.units = "K"])>>}

\* the snapshots a returned cycle can have published
Snapshots ==
    UNION {{ThermoworksData(devs, chans) :
                chans \in [{get_identifier(devs[n]) : n \in DOMAIN devs}
                            -> SetupChannelLists]} :
            devs \in SeqUpTo(SetupDevices, MaxDevices)}

\* the first refresh has returned a snapshot; no sensor has been set up
InitSetup ==
    /\ cloud_devices = <<>>
    /\ cloud_channels = [s \in Serials |-> 0]
    /\ faults = 0
    /\ api = Session
    /\ data \in Snapshots
    /\ last_update_success = TRUE
    /\ last_exception = NoException
    /\ pc = "idle"
    /\ api_devices = <<>>
    /\ dev_i = 0
    /\ channel = 0
    /\ devices = <<>>
    /\ device_channels = <<>>
    /\ device_channels_by_device = EmptyMap
    /\ calls = <<>>
    /\ refresh_no = "first"
    /\ had_session = TRUE
    /\ in_flight = 0
    /\ prev_data = NoData
    /\ options = EmptyMap
    /\ NoFlow
    /\ poll_interval = DEFAULT_SCAN_INTERVAL_SECONDS
    /\ entities = <<>>
    /\ NotSetUp
    /\ arg = NoCall
    /\ ret = ReturnNone

NextSetup == AsyncSetupEntry

\* the entity-setup pass over a published snapshot
SpecSetup == InitSetup /\ [][NextSetup]_vars

-----------------------------------------------------------------------------
(* sensor.py: the sensors as listeners of the coordinator *)

TypeError == [type |-> "TypeError"]

\* float(x) of an attribute value
float(x) == IF x = None THEN Raise(TypeError) ELSE Return(x)

\* the property native_value of the three sensor classes
native_value(self) ==
    IF self.class = "BatterySensor" THEN float(self.device.battery)
    ELSE IF self.class = "SignalSensor" THEN float(self.device.wifi_strength)
    ELSE float(self.device_channel.value)

\* mutant of available: a sensor is available whatever the last cycle did
available_Always(self) == TRUE

\* CoordinatorEntity.available, which no sensor class overrides
available(self) == last_update_success

\* what a listener call leaves: the sensor, what the call returned or
\* raised, and whether it has called async_write_ha_state
Handled(self, out, wrote) == [self |-> self, ret |-> out, wrote |-> wrote]

SensorUpdateFailed(reason) ==
    [type |-> "UpdateFailed", message |-> "Cannot update sensor: " \o reason]

\* mutant of DeviceSensor_handle_coordinator_update: a device that is not
\* found is not an error, the sensor writes its state again
DeviceSensor_handle_coordinator_update_WritesAnyway(self, self_data, hints) ==
    LET device == get_device_by_id(self_data, get_identifier(self.device))
    IN  IF device.raises # <<>> THEN Handled(self, device, FALSE)
        ELSE IF device.value = <<>> THEN Handled(self, ReturnNone, TRUE)
        ELSE IF ~has_required_attributes(device.value[1], hints)
            THEN Handled(self, Raise(SensorUpdateFailed(
                                "device is missing required attribute(s)")), FALSE)
        ELSE Handled([self EXCEPT !.device = device.value[1]], ReturnNone, TRUE)

\* mutant of DeviceSensor_handle_coordinator_update: the device that is
\* found is stored without the protocol test
DeviceSensor_handle_coordinator_update_SkipsProtocol(self, self_data, hints) ==
    LET device == get_device_by_id(self_data, get_identifier(self.device))
    IN  IF device.raises # <<>> THEN Handled(self, device, FALSE)
        ELSE IF device.value = <<>>
            THEN Handled(self, Raise(SensorUpdateFailed("device is not found")),
                         FALSE)
        ELSE Handled([self EXCEPT !.device = device.value[1]], ReturnNone, TRUE)

\* _handle_coordinator_update of BatterySensor and of SignalSensor, which
\* differ in the protocol they test
DeviceSensor_handle_coordinator_update(self, self_data, hints) ==
    LET device == get_device_by_id(self_data, get_identifier(self.device))
    IN  IF device.raises # <<>> THEN Handled(self, device, FALSE)
        ELSE IF device.value = <<>>
            THEN Handled(self, Raise(SensorUpdateFailed("device is not found")),
                         FALSE)
        ELSE IF ~has_required_attributes(device.value[1], hints)
            THEN Handled(self, Raise(SensorUpdateFailed(
                                "device is missing required attribute(s)")), FALSE)
        ELSE Handled([self EXCEPT !.device = device.value[1]], ReturnNone, TRUE)

\* _handle_coordinator_update of ChannelSensor
ChannelSensor_handle_coordinator_update(self, self_data) ==
    LET device_channel ==
            get_device_channel_by_id(self_data, self.device_serial,
                                     self.device_channel.number)
    IN  IF device_channel.raises # <<>> THEN Handled(self, device_channel, FALSE)
        ELSE IF device_channel.value = <<>>
            THEN Handled(self, Raise(SensorUpdateFailed(
                                "device channel is not found")), FALSE)
        ELSE Handled([self EXCEPT !.device_channel = device_channel.value[1]],
                     ReturnNone, TRUE)

handle_coordinator_update(self, self_data) ==
    IF self.class = "BatterySensor"
        THEN DeviceSensor_handle_coordinator_update(self, self_data,
                                                    DeviceWithBatteryHints)
    ELSE IF self.class = "SignalSensor"
        THEN DeviceSensor_handle_coordinator_update(self, self_data,
                                                    DeviceWithWifiHints)
    ELSE ChannelSensor_handle_coordinator_update(self, self_data)

\* the state async_write_ha_state writes for a sensor
WrittenState(self, is_available) ==
    IF ~is_available THEN "unavailable"
    ELSE IF native_value(self).raises # <<>> THEN "unknown"
    ELSE native_value(self).value[1]

\* no listener call of the last notification is still to be made
Dispatched == \A n \in DOMAIN dispatch : dispatch[n] # "pending"

\* the listeners are to be called
Notified == [n \in DOMAIN entities |-> IF n \in listeners THEN "pending" ELSE "none"]

\* mutant of Scheduled: the timer runs whether or not there is a listener
Scheduled_WithoutListeners == TRUE

\* the timer of the coordinator is running: "Will only be polled if there
\* are subscribers"
Scheduled == listeners # {}

\* a snapshot of the account of one device
SensorSnapshot(b, w, chans) ==
    ThermoworksData(
        <<from_api_device([RawDevice("A", None) EXCEPT !.battery = b,
                                                       !.wifi_strength = w])>>,
        [id \in {"A"} |-> chans])

\* the snapshots of that account over time: the device with a battery
\* level, a wifi strength and a channel; the same with other values,
\* channel 1 now reporting humidity; the device without battery level,
\* channel 1 reporting a fault; the device without wifi strength and
\* without its channel; no device
SensorSnapshots ==
    {SensorSnapshot("55", "-70", <<from_api_channel(RawChannel("A", 1))>>),
     SensorSnapshot("80", "-60",
        <<from_api_channel([RawChannel("A", 1) EXCEPT !.units = "H"])>>),
     SensorSnapshot(None, "-70",
        <<from_api_channel([RawChannel("A", 1) EXCEPT !.status = "ERROR"])>>),
     SensorSnapshot("55", None, <<>>),
     ThermoworksData(<<>>, EmptyMap)}

\* a timer-driven cycle has returned a snapshot: the coordinator stores it
\* and notifies its listeners
RefreshSucceeds ==
    /\ pc = "idle"
    /\ Dispatched
    /\ Scheduled
    /\ data' \in SensorSnapshots
    /\ last_update_success' = TRUE
    /\ last_exception' = NoException
    /\ dispatch' = Notified
    /\ arg' = [fn |-> "async_update_data"]
    /\ ret' = ReturnNone
    /\ UNCHANGED <<world, api, pc, in_flight, locals, calls, history,
                   entities, states, listeners, config>>

\* a timer-driven cycle has raised UpdateFailed: the snapshot stays and the
\* listeners are notified
RefreshFails ==
    /\ pc = "idle"
    /\ Dispatched
    /\ Scheduled
    /\ last_update_success' = FALSE
    /\ last_exception' = UpdateFailed("get_devices failed")
    /\ dispatch' = Notified
    /\ arg' = [fn |-> "async_update_data"]
    /\ ret' = Raise(last_exception')
    /\ UNCHANGED <<world, api, data, pc, in_flight, locals, calls, history,
                   entities, states, listeners, config>>

\* the listener of one notified sensor is called
HandleCoordinatorUpdate ==
    /\ \E n \in DOMAIN dispatch :
        /\ dispatch[n] = "pending"
        /\ LET out == handle_coordinator_update(entities[n], data)
           IN  /\ entities' = [entities EXCEPT ![n] = out.self]
               /\ states' = IF out.wrote
                                THEN [states EXCEPT
                                        ![n] = WrittenState(out.self, available(out.self))]
                                ELSE states
               /\ dispatch' = [dispatch EXCEPT
                                ![n] = IF out.wrote THEN "written" ELSE "raised"]
               /\ arg' = [fn |-> "_handle_coordinator_update", entity |-> n]
               /\ ret' = out.ret
    /\ UNCHANGED <<world, api, data, last_update_success, last_exception, pc,
                   in_flight, locals, calls, history, listeners, config>>

\* the notification ends with listeners that have not been called
DispatchEnds ==
    /\ ~Dispatched
    /\ dispatch' = [n \in DOMAIN dispatch |->
                        IF dispatch[n] = "pending" THEN "skipped" ELSE dispatch[n]]
    /\ UNCHANGED <<world, api, data, last_update_success, last_exception, pc,
                   in_flight, locals, calls, history, entities, arg, ret,
                   states, listeners, config>>

\* a sensor is removed from the state machine and unsubscribes
Unsubscribe ==
    /\ Dispatched
    /\ \E n \in listeners : listeners' = listeners \ {n}
    /\ UNCHANGED <<world, api, data, last_update_success, last_exception, pc,
                   in_flight, locals, calls, history, entities, arg, ret,
                   states, dispatch, config>>

\* the first refresh has returned a snapshot and async_setup_entry has added
\* its sensors, which have subscribed and written their first state
InitSensors ==
    /\ cloud_devices = <<>>
    /\ cloud_channels = [s \in Serials |-> 0]
    /\ faults = 0
    /\ api = Session
    /\ data \in SensorSnapshots
    /\ last_update_success = TRUE
    /\ last_exception = NoException
    /\ pc = "idle"
    /\ api_devices = <<>>
    /\ dev_i = 0
    /\ channel = 0
    /\ devices = <<>>
    /\ device_channels = <<>>
    /\ device_channels_by_device = EmptyMap
    /\ calls = <<>>
    /\ refresh_no = "first"
    /\ had_session = TRUE
    /\ in_flight = 0
    /\ prev_data = NoData
    /\ options = EmptyMap
    /\ NoFlow
    /\ poll_interval = DEFAULT_SCAN_INTERVAL_SECONDS
    /\ entities = new_entities(data, data.devices)
    /\ states = [n \in DOMAIN entities |-> WrittenState(entities[n], TRUE)]
    /\ listeners = DOMAIN entities
    /\ dispatch = [n \in DOMAIN entities |-> "none"]
    /\ arg = [fn |-> "async_setup_entry"]
    /\ ret = ReturnNone

NextSensors ==
    \/ RefreshSucceeds
    \/ RefreshFails
    \/ HandleCoordinatorUpdate
    \/ DispatchEnds
    \/ Unsubscribe

\* the sensors of one account over the refresh cycles that follow their setup
SpecSensors == InitSensors /\ [][NextSensors]_vars

\* the same sensors and refreshes, for what is claimed of the subscriptions
\* and of the stored device records
SpecListeners == InitSensors /\ [][NextSensors]_vars

-----------------------------------------------------------------------------
(* config_flow.py: OptionsFlowHandler *)

Invalid == [type |-> "Invalid"]

\* vol.Coerce(int) of a submitted value: an integer, or a text that is no
\* number
Coerce_int(v) == IF v.kind = "int" THEN Return(v.n) ELSE Raise(Invalid)

\* mutant of Clamp: the value passes as it is
Clamp_NoMin(v, min) == v

\* vol.Clamp(min=min)
Clamp(v, min) == IF v < min THEN min ELSE v

\* vol.All(vol.Coerce(int), vol.Clamp(min=MIN_SCAN_INTERVAL_SECONDS))
data_schema(v) ==
    IF Coerce_int(v).raises # <<>> THEN Coerce_int(v)
    ELSE Return(Clamp(Coerce_int(v).value[1], MIN_SCAN_INTERVAL_SECONDS))

\* a | b of two mappings
Merge(a, b) ==
    [k \in DOMAIN a \cup DOMAIN b |-> IF k \in DOMAIN b THEN b[k] ELSE a[k]]

\* what a user can type into the field of the form
SubmittedValues ==
    {[kind |-> "int", n |-> k] : k \in {-1, 0, 4, 5, 6, 60, 300, 1800, 3600}} \cup
    {[kind |-> "text", n |-> 0]}

\* async_step_init(None): the form is shown, with the stored interval or
\* the default in its field
ShowOptionsForm ==
    /\ arg' = [fn |-> "async_step_init", user_input |-> <<>>]
    /\ ret' = Return([step_id |-> "init",
                      default |-> Get(options, CONF_SCAN_INTERVAL,
                                      DEFAULT_SCAN_INTERVAL_SECONDS)])
    /\ UNCHANGED <<world, api, data, last_update_success, last_exception, pc,
                   in_flight, locals, calls, history, entities, hass, config>>

\* the form is submitted: the value goes through the schema of the form,
\* and async_step_init(user_input) stores the options merged with it
SubmitOptionsForm ==
    /\ arg.fn = "async_step_init"
    /\ IF ret.raises # <<>> THEN TRUE ELSE "step_id" \in DOMAIN ret.value[1]
    /\ \E v \in SubmittedValues :
        /\ arg' = [fn |-> "async_step_init", user_input |-> <<v>>]
        /\ IF data_schema(v).raises # <<>>
            THEN /\ ret' = data_schema(v)
                 /\ UNCHANGED options
            ELSE LET user_input ==
                        [k \in {CONF_SCAN_INTERVAL} |-> data_schema(v).value[1]]
                 IN  /\ options' = Merge(options, user_input)
                     /\ ret' = Return([data |-> options'])
    /\ UNCHANGED <<world, api, data, last_update_success, last_exception, pc,
                   in_flight, locals, calls, history, entities, hass,
                   poll_interval, flows>>

\* ThermoworksCoordinator.__init__ reads the interval from the options
CreateCoordinator ==
    /\ pc = "idle"
    /\ poll_interval' = Get(options, CONF_SCAN_INTERVAL,
                            DEFAULT_SCAN_INTERVAL_SECONDS)
    /\ arg' = [fn |-> "__init__"]
    /\ ret' = ReturnNone
    /\ UNCHANGED <<world, api, data, last_update_success, last_exception, pc,
                   in_flight, locals, calls, history, entities, hass, options,
                   flows>>

\* a config entry without options and its coordinator
InitOptions ==
    /\ cloud_devices = <<>>
    /\ cloud_channels = [s \in Serials |-> 0]
    /\ faults = 0
    /\ options = EmptyMap
    /\ NoFlow
    /\ Constructed
    /\ entities = <<>>
    /\ NotSetUp
    /\ arg = NoCall
    /\ ret = ReturnNone

NextOptions ==
    \/ ShowOptionsForm
    \/ SubmitOptionsForm
    \/ CreateCoordinator

\* the options flow and the coordinators created from the options
SpecOptions == InitOptions /\ [][NextOptions]_vars

-----------------------------------------------------------------------------
(* config_flow.py: validate_input and ConfigFlow.async_step_user *)

AuthenticationError == [type |-> "AuthenticationError"]

ConnectionError == [type |-> "ConnectionError"]

\* an exception that is neither of the two
RuntimeError == [type |-> "RuntimeError"]

InvalidAuth == [type |-> "InvalidAuth"]

CannotConnect == [type |-> "CannotConnect"]

\* the except clauses of validate_input
Reraised(exc) ==
    IF exc = AuthenticationError THEN Raise(InvalidAuth)
    ELSE IF exc = ConnectionError THEN Raise(CannotConnect)
    ELSE Raise(exc)

\* validate_input(hass, data), build_auth and get_user having returned or
\* raised auth and user
validate_input(auth, user) ==
    IF auth.raises # <<>> THEN Reraised(auth.raises[1])
    ELSE IF user.raises # <<>> THEN Reraised(user.raises[1])
    ELSE Return([title |-> "ThermoWorks Cloud", user |-> auth.value[1].user_id])

\* self.async_show_form(step_id="user", data_schema=CONFIG_SCHEMA, errors=errors)
async_show_form(errors) == [type |-> "form", step_id |-> "user", errors |-> errors]

\* self.async_create_entry(title=title, data=data), with the unique id
\* the flow has been given
async_create_entry(unique_id, title, entry_data) ==
    [type |-> "create_entry", unique_id |-> unique_id, title |-> title,
     data |-> entry_data]

\* what _abort_if_unique_id_configured leaves when an entry has the unique
\* id of the flow
AbortFlow == [type |-> "abort", reason |-> "already_configured"]

\* errors["base"] after the try statement of async_step_user
ErrorsOf(info) ==
    IF info.raises = <<>> THEN EmptyMap
    ELSE [k \in {"base"} |->
            IF info.raises[1] = CannotConnect THEN "cannot_connect"
            ELSE IF info.raises[1] = InvalidAuth THEN "invalid_auth"
            ELSE "unknown"]

\* mutant of async_step_user: the entry is created whatever the validation
\* raised
async_step_user_IgnoresErrors(self_entries, user_input, auth, user) ==
    IF user_input = <<>> THEN async_show_form(EmptyMap)
    ELSE LET info == validate_input(auth, user)
             unique_id == IF info.raises = <<>> THEN info.value[1].user ELSE None
         IN  IF \E e \in self_entries : e.unique_id = unique_id
                 THEN AbortFlow
                 ELSE async_create_entry(unique_id, "ThermoWorks Cloud",
                                         user_input[1])

\* ConfigFlow.async_step_user(user_input): <<>> is None
async_step_user(self_entries, user_input, auth, user) ==
    IF user_input = <<>> THEN async_show_form(EmptyMap)
    ELSE LET info == validate_input(auth, user)
             errors == ErrorsOf(info)
         IN  IF "base" \notin DOMAIN errors
                 THEN IF \E e \in self_entries : e.unique_id = info.value[1].user
                         THEN AbortFlow
                         ELSE async_create_entry(info.value[1].user,
                                                 info.value[1].title, user_input[1])
                 ELSE async_show_form(errors)

\* what is typed into the form: CONFIG_SCHEMA asks for two strings
Credentials ==
    {[email |-> e, password |-> p] : e \in {"ann@mail", "bob@mail"},
                                     p \in {"pw1", "pw2"}}

\* the user id the cloud has for an account
UserIdOf(email) == IF email = "ann@mail" THEN "u-ann" ELSE "u-bob"

\* what auth_factory.build_auth can do
BuildAuthOutcomes(user_input) ==
    {Return([user_id |-> UserIdOf(user_input.email)]), Raise(AuthenticationError),
     Raise(ConnectionError), Raise(RuntimeError)}

\* what thermoworks_cloud.get_user can do
GetUserOutcomes ==
    {ReturnNone, Raise(AuthenticationError), Raise(ConnectionError),
     Raise(RuntimeError)}

\* the flow manager acts on the result of a step: a form keeps the flow at
\* the step, an entry is added, an abort ends the flow
FlowResult(result) ==
    /\ ret' = Return(result)
    /\ flow' = IF result.type = "form" THEN result.step_id ELSE "done"
    /\ config_entries' =
            IF result.type = "create_entry"
                THEN config_entries \cup {[unique_id |-> result.unique_id,
                                           title |-> result.title,
                                           data |-> result.data]}
                ELSE config_entries

\* the user starts a config flow: async_step_user(None)
StartFlow ==
    /\ flow \in {"none", "done"}
    /\ arg' = [fn |-> "async_step_user", user_input |-> <<>>,
               auth |-> ReturnNone, user |-> ReturnNone]
    /\ FlowResult(async_step_user(config_entries, <<>>, ReturnNone, ReturnNone))
    /\ UNCHANGED <<world, api, data, last_update_success, last_exception, pc,
                   in_flight, locals, calls, history, entities, hass, options,
                   poll_interval>>

\* the user submits the form: async_step_user(user_input)
SubmitUserForm ==
    /\ flow = "user"
    /\ \E user_input \in Credentials :
        \E auth \in BuildAuthOutcomes(user_input) :
            \E user \in IF auth.raises = <<>> THEN GetUserOutcomes ELSE {ReturnNone} :
                /\ arg' = [fn |-> "async_step_user", user_input |-> <<user_input>>,
                           auth |-> auth, user |-> user]
                /\ FlowResult(async_step_user(config_entries, <<user_input>>,
                                              auth, user))
    /\ UNCHANGED <<world, api, data, last_update_success, last_exception, pc,
                   in_flight, locals, calls, history, entities, hass, options,
                   poll_interval>>

\* the user removes a config entry
RemoveEntry ==
    /\ flow \in {"none", "done"}
    /\ \E e \in config_entries : config_entries' = config_entries \ {e}
    /\ UNCHANGED <<world, api, data, last_update_success, last_exception, pc,
                   in_flight, locals, calls, history, entities, arg, ret, hass,
                   options, poll_interval, flow>>

\* no entry, no flow
InitConfigFlow ==
    /\ cloud_devices = <<>>
    /\ cloud_channels = [s \in Serials |-> 0]
    /\ faults = 0
    /\ options = EmptyMap
    /\ NoFlow
    /\ Constructed
    /\ entities = <<>>
    /\ NotSetUp
    /\ arg = NoCall
    /\ ret = ReturnNone

NextConfigFlow ==
    \/ StartFlow
    \/ SubmitUserForm
    \/ RemoveEntry

\* the config flows of the integration, one after the other
SpecConfigFlow == InitConfigFlow /\ [][NextConfigFlow]_vars

-----------------------------------------------------------------------------
(* What the claims speak of *)

Range(f) == {f[x] : x \in DOMAIN f}

RECURSIVE Normalized(_)
\* the raw records that have every required attribute, normalized, in order
Normalized(raw) ==
    IF raw = <<>> THEN <<>>
    ELSE IF HasAttr(Head(raw), "serial") /\ Head(raw).serial # None
        THEN <<from_api_device(Head(raw))>> \o Normalized(Tail(raw))
        ELSE Normalized(Tail(raw))

Accepted(d) == HasAttr(cloud_devices[d], "serial") /\ cloud_devices[d].serial # None

\* the identifier under which the channels of the device at position d are kept
IdOf(d) == get_identifier(from_api_device(cloud_devices[d]))

IsProbe(c) == c.call = "channel"

\* the last cycle got past the device-list fetch
DevicesFetched == \E n \in DOMAIN calls : calls[n] = Call("get_devices", "ok")

\* a cycle has ended with the return of a snapshot
Returned == pc = "idle" /\ DevicesFetched

\* a cycle has ended at the authentication, the user fetch or the device-list
\* fetch
FailedFatally ==
    /\ pc = "idle"
    /\ calls # <<>>
    /\ ~IsProbe(calls[Len(calls)])
    /\ calls[Len(calls)].out \in {"error", "no_account"}

\* the channel loop of the device at position d has ended
DoneWith(d) == Accepted(d) /\ (Returned \/ (pc = "get_channel" /\ dev_i > d))

\* a later device with the same identifier has replaced the entry of d
Overwritten(d) ==
    \E e \in DOMAIN cloud_devices : e > d /\ DoneWith(e) /\ IdOf(e) = IdOf(d)

\* the channel list the coordinator holds for the device at position d
StoredFor(d) ==
    IF pc = "get_channel" /\ dev_i = d THEN device_channels
    ELSE IF pc = "get_channel" THEN device_channels_by_device[IdOf(d)]
    ELSE data.device_channels[IdOf(d)]

\* the channels of position d whose fetch brought an accepted record, in the
\* order of the fetches
FoundFor(d) ==
    LET ok == SelectSeq(calls, LAMBDA c : IsProbe(c) /\ c.dev = d /\ c.out = "ok")
    IN [n \in 1..Len(ok) |->
            from_api_channel(RawChannel(cloud_devices[d].serial, ok[n].idx))]

\* position n of calls is followed by the fetch of the next index of the
\* same device
NextIndexFollows(n) ==
    IF n < Len(calls)
        THEN /\ IsProbe(calls[n + 1])
             /\ calls[n + 1].dev = calls[n].dev
             /\ calls[n + 1].idx = calls[n].idx + 1
        ELSE /\ pc = "get_channel"
             /\ dev_i = calls[n].dev
             /\ channel = calls[n].idx + 1

\* a fetch that ended in `out` left out its own index and nothing else
SkipsOnlyItsIndex(out) ==
    \A n \in DOMAIN calls :
        (IsProbe(calls[n]) /\ calls[n].out = out) =>
            /\ calls[n].idx + 1 < ProbeStop => NextIndexFollows(n)
            /\ ~Overwritten(calls[n].dev) =>
                    StoredFor(calls[n].dev) = FoundFor(calls[n].dev)

\* a fetch that ended in `out` at index i was followed by an accepted channel
\* at index j of the same device, which the published snapshot holds
SkippedThenFound(out, i, j) ==
    /\ Returned
    /\ \E n, m \in DOMAIN calls :
        /\ n < m
        /\ calls[n] = Probe(calls[m].dev, i, out)
        /\ calls[m] = Probe(calls[n].dev, j, "ok")
        /\ ~Overwritten(calls[n].dev)
        /\ \E k \in DOMAIN data.device_channels[IdOf(calls[n].dev)] :
                data.device_channels[IdOf(calls[n].dev)][k].number = ToStr(j)
        /\ \A k \in DOMAIN data.device_channels[IdOf(calls[n].dev)] :
                data.device_channels[IdOf(calls[n].dev)][k].number # ToStr(i)

-----------------------------------------------------------------------------
(* C1: when a cycle ends in a failure of the authentication, of the user   *)
(* fetch or of the device-list fetch, the snapshot is the one the          *)
(* coordinator held when the cycle started, and the cycle is recorded as   *)
(* failed.                                                                 *)
C1_FatalFailureKeepsSnapshot ==
    FailedFatally => data = prev_data /\ ~last_update_success /\ in_flight = 0

\* a device-list fetch failed after a snapshot with a device was published
C1_Witness ==
    /\ FailedFatally
    /\ calls[Len(calls)] = Call("get_devices", "error")
    /\ data # NoData
    /\ data.devices # <<>>

(* C2: after a channel fetch of a device came back not-found, no further   *)
(* channel of that device is fetched in that cycle; a device whose fetches *)
(* were found at 1, 2, 3 and not-found at 4 has exactly three channels.    *)
C2_NotFoundEndsDiscovery ==
    \A n \in DOMAIN calls :
        (IsProbe(calls[n]) /\ calls[n].out = "not_found") =>
            /\ \A m \in DOMAIN calls :
                    (m > n /\ IsProbe(calls[m])) => calls[m].dev > calls[n].dev
            /\ ~(pc = "get_channel" /\ dev_i = calls[n].dev)
            /\ ~Overwritten(calls[n].dev) =>
                    StoredFor(calls[n].dev) = FoundFor(calls[n].dev)

\* found at 1, 2, 3, not-found at 4, the cycle returned: three channels
C2_Witness ==
    /\ Returned
    /\ \E d \in DOMAIN cloud_devices :
        /\ SelectSeq(calls, LAMBDA c : IsProbe(c) /\ c.dev = d) =
                <<Probe(d, 1, "ok"), Probe(d, 2, "ok"), Probe(d, 3, "ok"),
                  Probe(d, 4, "not_found")>>
        /\ Len(data.device_channels[IdOf(d)]) = 3

(* C3: a channel fetch that ends in an error other than not-found leaves   *)
(* out that index alone: the next index is fetched, and the channels found *)
(* for the device are all in its channel list.                             *)
C3_ErrorSkipsOneIndex == SkipsOnlyItsIndex("error")

\* an error at index 2, a channel found at index 9
C3_Witness == SkippedThenFound("error", 2, ProbeStop - 1)

(* C4: the device list of a returned snapshot holds the raw records that   *)
(* have their required attributes, normalized and in the order of the      *)
(* batch; a record without them is left out and the cycle does not fail.   *)
C4_RejectedDeviceOmitted ==
    /\ Returned => data.devices = Normalized(cloud_devices) /\ last_update_success
    /\ pc = "get_channel" =>
            devices = Normalized(SubSeq(cloud_devices, 1, dev_i))

\* a batch with a rejected record before an accepted one
C4_Witness ==
    /\ Returned
    /\ Len(cloud_devices) = 2
    /\ ~Accepted(1)
    /\ Accepted(2)
    /\ Len(data.devices) = 1

(* C5: a fetched channel record that fails normalization is left out       *)
(* alone: the next index is fetched, and the channels accepted for the     *)
(* device are all in its channel list.                                     *)
C5_InvalidChannelSkipsOneIndex == SkipsOnlyItsIndex("invalid")

\* a rejected record at index 1, a channel accepted at index 3
C5_Witness == SkippedThenFound("invalid", 1, 3)

(* C6: a cycle whose authentication, user fetch and device-list fetch      *)
(* succeeded ends with a snapshot and no failure, whatever the device      *)
(* records and the channel fetches brought.                                *)
C6_OnlyFatalErrorsFail ==
    /\ Returned => last_update_success /\ last_exception = NoException /\ data # NoData
    /\ (pc = "idle" /\ ~last_update_success) => FailedFatally

\* a returned cycle with a rejected device, a channel error and a not-found
C6_Witness ==
    /\ Returned
    /\ \E d \in DOMAIN cloud_devices : ~Accepted(d)
    /\ \E n, m \in DOMAIN calls : calls[n].out = "error" /\ calls[m].out = "not_found"

(* C7: what a reader sees in self.data is the initial value or the whole   *)
(* result of one returned cycle: while a cycle runs it is the snapshot of  *)
(* the cycle's start, and a snapshot has every accepted device and a       *)
(* channel list for each of them.                                          *)
C7_SnapshotAtomic ==
    /\ pc # "idle" => data = prev_data
    /\ data # NoData =>
        /\ data.devices = Normalized(cloud_devices)
        /\ DOMAIN data.device_channels =
                {get_identifier(data.devices[n]) : n \in DOMAIN data.devices}
        /\ \A k \in DOMAIN data.device_channels :
                \A n \in DOMAIN data.device_channels[k] :
                    is_thermoworks_channel(data.device_channels[k][n])

\* a cycle is suspended in the channels of its second device while the
\* snapshot of an earlier cycle is published
C7_Witness ==
    /\ pc = "get_channel"
    /\ Len(devices) = 2
    /\ DOMAIN device_channels_by_device # {}
    /\ data # NoData
    /\ data.device_channels # device_channels_by_device

(* C8: at most one refresh cycle is in flight; while a cycle is suspended  *)
(* on a network call the timer cannot start another.                       *)
C8_SingleFlight ==
    /\ in_flight <= 1
    /\ pc # "idle" => in_flight = 1 /\ ~ENABLED Tick

\* a cycle is suspended on a channel fetch
C8_Witness == pc = "get_channel" /\ in_flight = 1 /\ refresh_no = "later"

(* C9: once authentication has succeeded the coordinator keeps the session *)
(* handle, and no cycle authenticates again, failed cycles included.       *)
C9_SessionReused ==
    /\ had_session => api = Session
    /\ pc = "build_auth" => ~had_session
    /\ (had_session /\ \E n \in DOMAIN calls : calls[n].call = "build_auth") =>
            calls[1] = Call("build_auth", "ok")

\* a later cycle, after a failed one, is at its user fetch with the handle
\* and without having authenticated
C9_Witness ==
    /\ refresh_no = "later"
    /\ ~last_update_success
    /\ pc = "get_user"
    /\ calls = <<>>
    /\ api = Session

(* C10, as claimed: authenticate is invoked during the first refresh and   *)
(* in no refresh after the first.                                          *)
C10_AuthOnlyInFirstRefresh ==
    /\ (refresh_no = "first" /\ pc # "build_auth") => calls[1].call = "build_auth"
    /\ refresh_no = "later" =>
        /\ pc # "build_auth"
        /\ \A n \in DOMAIN calls : calls[n].call # "build_auth"

(* C10, amended: authenticate is invoked during the first refresh, and in  *)
(* a later refresh exactly when no earlier authentication has succeeded;   *)
(* it is the first call of its cycle.                                      *)
C10_AuthUntilFirstSuccess ==
    /\ (refresh_no = "first" /\ pc # "build_auth") => calls[1].call = "build_auth"
    /\ pc = "build_auth" => api = None /\ calls = <<>>
    /\ \A n \in DOMAIN calls : calls[n].call = "build_auth" => n = 1
    /\ (pc # "idle" /\ api = None) => pc = "build_auth"
    /\ (pc \notin {"idle", "build_auth"} /\ prev_data # NoData) =>
            \A n \in DOMAIN calls : calls[n].call # "build_auth"

\* a later refresh authenticates, the first one having failed to
C10_Witness ==
    /\ refresh_no = "later"
    /\ pc = "get_user"
    /\ calls = <<Call("build_auth", "ok")>>

-----------------------------------------------------------------------------
\* a step in which an accessor is called
LookupStep == <<arg, ret>>' # <<arg, ret>>

\* the snapshot holds what the call a asks for
InSnapshot(a) ==
    /\ data # NoData
    /\ IF a.fn = "get_device_by_id"
        THEN \E n \in DOMAIN data.devices :
                get_identifier(data.devices[n]) = a.device_id
        ELSE /\ a.device_id \in DOMAIN data.device_channels
             /\ \E n \in DOMAIN data.device_channels[a.device_id] :
                    data.device_channels[a.device_id][n].number = a.channel_id

(* C11, as claimed: in every state of the coordinator, get_device_by_id    *)
(* and get_device_channel_by_id raise nothing, and return None for an      *)
(* identifier or a channel number the snapshot does not hold.              *)
C11_LookupsNeverRaise ==
    [][LookupStep =>
        /\ ret'.raises = <<>>
        /\ ~InSnapshot(arg') => ret'.value = <<>>]_vars

(* C12: a call of get_device_by_id or get_device_channel_by_id changes     *)
(* nothing of the coordinator (snapshot, session handle, cycle position,   *)
(* cycles in flight, locals of the cycle in progress) and starts no        *)
(* refresh; what it returns is found in the snapshot self.data holds at    *)
(* the call, and it returns None only if that snapshot has no match.       *)
C12_LookupsReadOnly ==
    [][LookupStep =>
        /\ UNCHANGED <<data, api, pc, in_flight, last_update_success,
                       last_exception, locals, calls, history, world>>
        /\ ret'.value # <<>> =>
            /\ InSnapshot(arg')
            /\ IF arg'.fn = "get_device_by_id"
                THEN /\ ret'.value[1] \in Range(data.devices)
                     /\ get_identifier(ret'.value[1]) = arg'.device_id
                ELSE /\ ret'.value[1] \in Range(data.device_channels[arg'.device_id])
                     /\ ret'.value[1].number = arg'.channel_id
        /\ (ret'.value = <<>> /\ ret'.raises = <<>>) => ~InSnapshot(arg')]_vars

\* a device id was looked up and found while a later cycle has so far
\* normalized another device only
C12_Witness ==
    /\ arg.fn = "get_device_by_id"
    /\ arg.device_id = "D1"
    /\ ret.value # <<>>
    /\ pc = "get_channel"
    /\ Len(devices) = 1
    /\ data # NoData

-----------------------------------------------------------------------------
\* the last call of the cycle that has ended
LastCall == calls[Len(calls)]

(* C14: a cycle that ends in a failure, at the authentication, the user    *)
(* fetch, the missing account id or the device-list fetch, raises          *)
(* UpdateFailed and nothing else, and its message ends with the text of    *)
(* the error that caused it.                                               *)
C14_FailureIsUpdateFailedWithCause ==
    (pc = "idle" /\ ~last_update_success) =>
        /\ FailedFatally
        /\ last_exception.type = "UpdateFailed"
        /\ LastCall = Call("build_auth", "error") =>
                last_exception.message = "Error communicating with API: AuthenticationError"
        /\ LastCall = Call("get_user", "error") =>
                last_exception.message = "Error communicating with API: get_user failed"
        /\ LastCall = Call("get_user", "no_account") =>
                last_exception.message =
                    "Error communicating with API: No account ID found for user"
        /\ LastCall = Call("get_devices", "error") =>
                last_exception.message = "Error communicating with API: get_devices failed"

\* a later cycle found no account id, after a cycle that published devices
C14_Witness ==
    /\ pc = "idle"
    /\ ~last_update_success
    /\ LastCall = Call("get_user", "no_account")
    /\ last_exception.message = "Error communicating with API: No account ID found for user"
    /\ data # NoData

-----------------------------------------------------------------------------
\* the attributes among `required` that the object lacks or has as null
Lacking(obj, required) ==
    {a \in required : a \notin DOMAIN obj \/ obj[a] = None}

\* what one call of from_api_device or from_api_channel did with its record
NormalizesBy(fn, required) ==
    arg.fn = fn =>
        /\ ret.raises = <<>> <=> Lacking(arg.obj, required) = {}
        /\ ret.raises = <<>> => ret.value # <<>>
        /\ ret.raises # <<>> =>
            /\ ret.raises[1].type = "MissingRequiredAttributeError"
            /\ Range(ret.raises[1].missing_attributes) = Lacking(arg.obj, required)
            /\ Len(ret.raises[1].missing_attributes) =
                    Cardinality(Lacking(arg.obj, required))

(* C15: normalization accepts a raw record iff each of its non-optional    *)
(* attributes (serial of a device; number, value, units of a channel) is   *)
(* there and not null; when it rejects, the names it reports are exactly   *)
(* the non-optional attributes that are absent or null, each once, and no  *)
(* optional attribute is among them.                                       *)
C15_AcceptsIffRequiredPresent ==
    /\ NormalizesBy("from_api_device", {"serial"})
    /\ NormalizesBy("from_api_channel", {"number", "value", "units"})

\* a channel record whose number is absent and whose units are null was
\* rejected with these two names; its null label is not reported
C15_Witness ==
    /\ arg.fn = "from_api_channel"
    /\ DOMAIN arg.obj = {"value", "units", "status", "label"}
    /\ arg.obj.units = None
    /\ arg.obj.label = None
    /\ ret.raises # <<>>
    /\ ret.raises[1].missing_attributes = <<"number", "units">>

(* C16, as claimed: get_identifier of a device with a device id and a      *)
(* serial is the device id; of a device with a serial only it is the       *)
(* serial; and for a device that normalization accepted, as the devices of *)
(* a snapshot are, it is never empty or null.                              *)
C16_IdentifierNeverEmpty ==
    arg.fn = "get_identifier" =>
        /\ arg.obj.device_id \notin {None, ""} => ret.value[1] = arg.obj.device_id
        /\ arg.obj.device_id = None => ret.value[1] = arg.obj.serial
        /\ ret.value[1] \notin {None, ""}

-----------------------------------------------------------------------------
\* the account has no device, or none that normalization accepts
NoUsableDevice == \A d \in DOMAIN cloud_devices : ~Accepted(d)

(* C17: when the device list is empty or every record of it is rejected,   *)
(* the cycle fetches no channel, returns, and publishes the snapshot with  *)
(* an empty device list and an empty channel map; no failure is recorded.  *)
C17_NoDevicesStillSucceeds ==
    (NoUsableDevice /\ DevicesFetched) =>
        /\ Returned
        /\ data = ThermoworksData(<<>>, EmptyMap)
        /\ last_update_success
        /\ last_exception = NoException
        /\ LastCall = Call("get_devices", "ok")

\* a list of two records, both rejected, ended in the empty snapshot
C17_Witness ==
    /\ Len(cloud_devices) = 2
    /\ NoUsableDevice
    /\ Returned
    /\ data = ThermoworksData(<<>>, EmptyMap)
    /\ last_update_success

-----------------------------------------------------------------------------
\* the channel fetches the cycle has made for the device at position d
ProbesOf(d) == SelectSeq(calls, LAMBDA c : IsProbe(c) /\ c.dev = d)

(* C18: the channel fetches of a device of a cycle are those of the        *)
(* indices 1, 2, ..., k in this order, each once and none left out, the    *)
(* fetch the cycle is suspended on being the next one; k is at most 9      *)
(* whatever the fetches brought.                                           *)
C18_ProbesInOrderAtMostNine ==
    \A d \in DOMAIN cloud_devices :
        /\ \A n \in DOMAIN ProbesOf(d) : ProbesOf(d)[n].idx = n
        /\ Len(ProbesOf(d)) <= 9
        /\ (pc = "get_channel" /\ dev_i = d) =>
                channel = Len(ProbesOf(d)) + 1 /\ channel <= 9
        /\ (pc = "get_channel" /\ dev_i # d /\ ProbesOf(d) # <<>>) => dev_i > d

\* nine fetches of one device, one of which brought a rejected record and
\* the others channels; the cycle returned
C18_Witness ==
    /\ Returned
    /\ \E d \in DOMAIN cloud_devices :
        /\ Len(ProbesOf(d)) = 9
        /\ ProbesOf(d)[4].out = "invalid"
        /\ ProbesOf(d)[9].out = "ok"

-----------------------------------------------------------------------------
\* the index whose str() is the channel number
IndexOf(number) == CHOOSE i \in 1..(ProbeStop - 1) : ToStr(i) = number

\* the coordinator holds a channel list for the device at position d, and
\* no later device of the batch has taken its identifier
HoldsListOf(d) ==
    /\ Accepted(d)
    /\ DoneWith(d) \/ (pc = "get_channel" /\ dev_i = d)
    /\ ~Overwritten(d)

(* C19: the channel list of a device holds the channels of the indices     *)
(* fetched for it whose fetch returned a record that normalization         *)
(* accepted: each of them once, no other, at most 9, in ascending order of *)
(* index.                                                                  *)
C19_StoredChannelsAreTheFound ==
    \A d \in DOMAIN cloud_devices :
        HoldsListOf(d) =>
            /\ Len(StoredFor(d)) <= 9
            /\ \A m, n \in DOMAIN StoredFor(d) :
                    m < n => IndexOf(StoredFor(d)[m].number) < IndexOf(StoredFor(d)[n].number)
            /\ \A i \in 1..(ProbeStop - 1) :
                    (\E n \in DOMAIN StoredFor(d) :
                        StoredFor(d)[n] = from_api_channel(RawChannel(cloud_devices[d].serial, i)))
                    <=> Probe(d, i, "ok") \in Range(calls)
            /\ \A n \in DOMAIN StoredFor(d) :
                    Probe(d, IndexOf(StoredFor(d)[n].number), "ok") \in Range(calls)

\* nine indices were fetched for a device and eight channels are in its
\* published list, in order, the index 5 having brought a rejected record
C19_Witness ==
    /\ Returned
    /\ \E d \in DOMAIN cloud_devices :
        /\ HoldsListOf(d)
        /\ Len(ProbesOf(d)) = 9
        /\ ProbesOf(d)[5].out = "invalid"
        /\ Len(data.device_channels[IdOf(d)]) = 8
        /\ data.device_channels[IdOf(d)][5].number = "6"

-----------------------------------------------------------------------------
\* the sensors of class c that async_setup_entry created for the device
SensorsOf(c, device) ==
    SelectSeq(entities, LAMBDA e : e.class = c /\ e.device = device)

\* how often the device is in the device list of the snapshot
TimesListed(device) ==
    Len(SelectSeq(data.devices, LAMBDA d : d = device))

(* C20: after an entity-setup pass over the snapshot, a device listed in   *)
(* it has a battery sensor iff its battery level is not null, and a signal *)
(* sensor iff its wifi strength is not null, the one whatever the other;   *)
(* there is one such sensor per listing of the device.                     *)
C20_BatteryAndSignalIndependent ==
    arg.fn = "async_setup_entry" =>
        \A n \in DOMAIN data.devices :
            LET device == data.devices[n] IN
            /\ Len(SensorsOf("BatterySensor", device)) =
                    IF device.battery # None THEN TimesListed(device) ELSE 0
            /\ Len(SensorsOf("SignalSensor", device)) =
                    IF device.wifi_strength # None THEN TimesListed(device) ELSE 0

\* a device with battery None and wifi strength -70 has a signal sensor
\* and no battery sensor; another device of the snapshot has a battery
\* sensor and no signal sensor
C20_Witness ==
    /\ arg.fn = "async_setup_entry"
    /\ \E m, n \in DOMAIN data.devices :
        /\ data.devices[m].battery = None
        /\ data.devices[m].wifi_strength = "-70"
        /\ Len(SensorsOf("SignalSensor", data.devices[m])) = 1
        /\ SensorsOf("BatterySensor", data.devices[m]) = <<>>
        /\ data.devices[n].battery = "55"
        /\ data.devices[n].wifi_strength = None
        /\ Len(SensorsOf("BatterySensor", data.devices[n])) = 1
        /\ SensorsOf("SignalSensor", data.devices[n]) = <<>>

-----------------------------------------------------------------------------
\* the sensors of class c created for the channel under the identifier id
ChannelSensorsOf(c, id, device_channel) ==
    SelectSeq(entities, LAMBDA e :
        /\ e.class = c
        /\ e.device_serial = id
        /\ e.device_channel = device_channel)

\* how many devices of the snapshot resolve to the identifier id
TimesIdentified(id) ==
    Len(SelectSeq(data.devices, LAMBDA d : get_identifier(d) = id))

\* the channel sensors among the entities
IsChannelSensor(e) == e.class \in {"HumiditySensor", "TemperatureSensor"}

(* C21: after an entity-setup pass, a channel of a device has one humidity *)
(* sensor iff its unit is "H", one temperature sensor iff its unit is "F"  *)
(* or "C", and no sensor for any other unit, once per listing of the       *)
(* device; every channel sensor belongs to a channel of the snapshot, so a *)
(* device without channels has none; and the unit of measurement of every  *)
(* sensor created is defined.                                              *)
C21_SensorKindByUnit ==
    arg.fn = "async_setup_entry" =>
        /\ \A id \in DOMAIN data.device_channels :
            \A n \in DOMAIN data.device_channels[id] :
                LET device_channel == data.device_channels[id][n] IN
                /\ Len(ChannelSensorsOf("HumiditySensor", id, device_channel)) =
                        IF device_channel.units = "H" THEN TimesIdentified(id) ELSE 0
                /\ Len(ChannelSensorsOf("TemperatureSensor", id, device_channel)) =
                        IF device_channel.units \in {"F", "C"}
                            THEN TimesIdentified(id) ELSE 0
        /\ \A k \in DOMAIN entities :
            IsChannelSensor(entities[k]) =>
                /\ entities[k].device_serial \in DOMAIN data.device_channels
                /\ entities[k].device_channel \in
                        Range(data.device_channels[entities[k].device_serial])
                /\ native_unit_of_measurement(entities[k]).raises = <<>>

\* a device with a Fahrenheit, a Celsius and a humidity channel has two
\* temperature sensors and one humidity sensor; another device, whose one
\* channel has the unit "K", has no channel sensor
C21_Witness ==
    /\ arg.fn = "async_setup_entry"
    /\ Len(data.devices) = 2
    /\ DOMAIN data.device_channels = {"A", "D1"}
    /\ Len(data.device_channels["A"]) = 3
    /\ data.device_channels["D1"] # <<>>
    /\ data.device_channels["D1"][1].units = "K"
    /\ Len(SelectSeq(entities, LAMBDA e :
            e.class = "TemperatureSensor" /\ e.device_serial = "A")) = 2
    /\ Len(SelectSeq(entities, LAMBDA e :
            e.class = "HumiditySensor" /\ e.device_serial = "A")) = 1
    /\ \A k \in DOMAIN entities :
            IsChannelSensor(entities[k]) => entities[k].device_serial # "D1"


MissingFrom(self, self_data) ==
    IF self.class \in {"BatterySensor", "SignalSensor"}
        THEN \A k \in DOMAIN self_data.devices :
                get_identifier(self_data.devices[k]) # get_identifier(self.device)
        ELSE \/ self.device_serial \notin DOMAIN self_data.device_channels
             \/ \A c \in Range(self_data.device_channels[self.device_serial]) :
                    c.number # self.device_channel.number

\* the listener of sensor n is called in this step
Listens(n) ==
    /\ n \in DOMAIN dispatch
    /\ dispatch[n] = "pending"
    /\ dispatch'[n] \in {"written", "raised"}

\* C23: when the listener of a sensor is called after a successful refresh
\* whose snapshot no longer holds the sensor's device (battery and signal
\* sensors) or channel (channel sensors), the sensor keeps the record it
\* had stored and its value, and no state is written for it.
C23_MissingKeepsRecord ==
    [][\A n \in DOMAIN entities :
            (Listens(n) /\ last_update_success /\ MissingFrom(entities[n], data)) =>
                /\ entities'[n] = entities[n]
                /\ native_value(entities'[n]) = native_value(entities[n])
                /\ states' = states
                /\ dispatch'[n] = "raised"]_vars

\* the device has left the account: the battery sensor's listener has been
\* called on a snapshot without devices and the sensor still shows 55
C23_Witness ==
    /\ arg.fn = "_handle_coordinator_update"
    /\ last_update_success
    /\ data.devices = <<>>
    /\ entities[arg.entity].class = "BatterySensor"
    /\ dispatch[arg.entity] = "raised"
    /\ entities[arg.entity].device.battery = "55"
    /\ states[arg.entity] = "55"

\* the network calls the current cycle has issued: those that have
\* returned and the one it is waiting for
RoundTrips == Len(calls) + (IF pc = "idle" THEN 0 ELSE 1)

\* the current cycle authenticates
Authenticates ==
    \/ pc = "build_auth"
    \/ calls # <<>> /\ calls[1].call = "build_auth"

\* C24 as stated: a cycle issues at most 1 + 9 * (number of devices of the
\* account) network calls.
C24_AtMostOnePlusNinePerDevice ==
    RoundTrips <= 1 + (ProbeStop - 1) * Len(cloud_devices)

\* C24 amended: a cycle issues at most 2 + 9 * (number of accepted devices)
\* network calls, and one more when it authenticates: the user fetch, the
\* device-list fetch and up to nine channel fetches for each device.
C24_AtMostTwoPlusNinePerDevice ==
    RoundTrips <= (IF Authenticates THEN 3 ELSE 2) +
                  (ProbeStop - 1) * Len(Normalized(cloud_devices))

\* a first cycle of an account of one device with nine channels has ended:
\* it has made twelve calls
C24_Witness ==
    /\ pc = "idle"
    /\ Len(cloud_devices) = 1
    /\ Len(calls) = 3 + (ProbeStop - 1)
    /\ calls[1].call = "build_auth"

\* the place of a call in the order of a cycle
Stage(name) ==
    IF name = "build_auth" THEN 1
    ELSE IF name = "get_user" THEN 2
    ELSE IF name = "get_devices" THEN 3
    ELSE 4

\* call c is made before the fetch of channel idx of the device at dev
BeforeProbe(c, dev, idx) ==
    IsProbe(c) => c.dev < dev \/ (c.dev = dev /\ c.idx < idx)

\* the calls that have returned precede the call the cycle is waiting for
AwaitedIsLast ==
    \A n \in DOMAIN calls :
        /\ pc # "idle" => Stage(calls[n].call) <= Stage(pc)
        /\ pc \in {"build_auth", "get_user", "get_devices"} =>
                Stage(calls[n].call) < Stage(pc)
        /\ pc = "get_channel" => BeforeProbe(calls[n], dev_i, channel)

\* C25: the calls of a cycle are made one at a time and in this order:
\* the authentication, only while there is no session handle, then the
\* user fetch, then the device-list fetch, then the channel fetches, device
\* after device in the order of the list and index after index; no call is
\* made before the one before it has returned.
C25_CallsInFixedOrder ==
    /\ in_flight = (IF pc = "idle" THEN 0 ELSE 1)
    /\ pc = "build_auth" => api = None /\ calls = <<>>
    /\ pc = "get_user" => calls \in {<<>>, <<Call("build_auth", "ok")>>}
    /\ pc = "get_devices" =>
            calls # <<>> /\ calls[Len(calls)] = Call("get_user", "ok")
    /\ pc = "get_channel" => DevicesFetched
    /\ AwaitedIsLast
    /\ \A n, m \in DOMAIN calls :
            n < m =>
                /\ Stage(calls[n].call) <= Stage(calls[m].call)
                /\ ~IsProbe(calls[m]) =>
                        /\ n = m - 1 => Stage(calls[n].call) = Stage(calls[m].call) - 1
                        /\ calls[n].out = "ok"
                /\ IsProbe(calls[m]) =>
                        /\ BeforeProbe(calls[n], calls[m].dev, calls[m].idx)
                        /\ Accepted(calls[m].dev)

\* a first cycle has authenticated, fetched the user and the device list
\* and then the channels of the first device and of the second
C25_Witness ==
    /\ pc = "idle"
    /\ Len(calls) > 4
    /\ calls[1] = Call("build_auth", "ok")
    /\ calls[2] = Call("get_user", "ok")
    /\ calls[3] = Call("get_devices", "ok")
    /\ calls[4] = Probe(1, 1, "ok")
    /\ calls[Len(calls)].call = "channel"
    /\ calls[Len(calls)].dev = 2

\* the last call was a submission of the options form that was accepted
Submitted ==
    /\ arg.fn = "async_step_init"
    /\ arg.user_input # <<>>
    /\ ret.raises = <<>>

\* C26: the stored poll interval is never below MIN_SCAN_INTERVAL_SECONDS
\* whatever is submitted to the options form; a submitted value below the
\* minimum is stored as the minimum and any other as itself; a coordinator
\* created while no interval is stored polls every
\* DEFAULT_SCAN_INTERVAL_SECONDS, and otherwise at the stored interval.
C26_IntervalClampedAtMinimum ==
    /\ CONF_SCAN_INTERVAL \in DOMAIN options =>
            options[CONF_SCAN_INTERVAL] >= MIN_SCAN_INTERVAL_SECONDS
    /\ Submitted =>
            options[CONF_SCAN_INTERVAL] =
                IF arg.user_input[1].n < MIN_SCAN_INTERVAL_SECONDS
                    THEN MIN_SCAN_INTERVAL_SECONDS
                    ELSE arg.user_input[1].n
    /\ arg.fn \in {"none", "__init__"} =>
            poll_interval =
                IF CONF_SCAN_INTERVAL \in DOMAIN options
                    THEN options[CONF_SCAN_INTERVAL]
                    ELSE DEFAULT_SCAN_INTERVAL_SECONDS
    /\ poll_interval >= MIN_SCAN_INTERVAL_SECONDS

\* 5 was stored for a submitted 4 and a coordinator was created with it;
\* then 0 was submitted and 5 is stored again
C26_Witness ==
    /\ Submitted
    /\ arg.user_input[1].n = 0
    /\ options[CONF_SCAN_INTERVAL] = MIN_SCAN_INTERVAL_SECONDS
    /\ poll_interval = MIN_SCAN_INTERVAL_SECONDS

\* a refresh cycle has run in this step: the snapshot or the record of the
\* last cycle's success is another
CycleRan == data' # data \/ last_update_success' # last_update_success

\* C27: a timer-driven refresh cycle runs only while at least one listener
\* is subscribed to the coordinator; with no subscriber no cycle begins.
C27_NoCycleWithoutSubscribers == [][CycleRan => listeners # {}]_vars

\* cycles have run for three sensors, the last one failed, and all three
\* have unsubscribed since
C27_Witness ==
    /\ listeners = {}
    /\ Len(entities) = 3
    /\ ~last_update_success
    /\ \E n \in DOMAIN states : states[n] = "unavailable"

\* the cycle has finished: with a snapshot returned and stored, or with
\* a failure recorded
Finished ==
    /\ pc = "idle"
    /\ in_flight = 0
    /\ \/ last_update_success /\ Returned /\ data # NoData
       \/ ~last_update_success

\* C28: when every awaited network call returns a result or an error, a
\* refresh cycle that has started finishes, with its snapshot stored or
\* with a failure recorded, and after a cycle that has finished, failed or
\* not, the next tick of the timer starts the next cycle.
C28_EveryCycleFinishes ==
    /\ (pc # "idle") ~> Finished
    /\ Finished ~> (pc # "idle")

\* a cycle that failed has been followed by one that has probed all nine
\* indices of a device and returned
C28_Witness ==
    /\ Finished
    /\ refresh_no = "later"
    /\ last_update_success
    /\ faults > 0
    /\ \E n \in DOMAIN calls : calls[n] = Probe(2, ProbeStop - 1, "ok")
    /\ calls[Len(calls)] = Probe(3, 2, "not_found")

\* the identifiers of the first n devices of a list
IdentifiersOf(devs, n) == {get_identifier(devs[k]) : k \in 1..n}

\* C29: in a snapshot every listed device has a channel list, possibly
\* empty, under its identifier, and every key of the channel map is the
\* identifier of a listed device; while a cycle runs, the map it builds
\* has the identifiers of the devices whose channel loop has ended.
C29_ChannelMapKeysAreListedDevices ==
    /\ data # NoData =>
        /\ \A n \in DOMAIN data.devices :
                get_identifier(data.devices[n]) \in DOMAIN data.device_channels
        /\ \A k \in DOMAIN data.device_channels :
                \E n \in DOMAIN data.devices : get_identifier(data.devices[n]) = k
    /\ pc = "get_channel" =>
            DOMAIN device_channels_by_device =
                IdentifiersOf(devices, Len(devices) - 1)

\* a snapshot of two devices, one with a channel and one with none
C29_Witness ==
    /\ Returned
    /\ Len(data.devices) = 2
    /\ DOMAIN data.device_channels = {"A", "D1"}
    /\ data.device_channels["A"] # <<>>
    /\ data.device_channels["D1"] = <<>>

\* the positions of the raw records that normalization rejects
Rejected == {d \in DOMAIN cloud_devices : ~Accepted(d)}

\* C30: for a raw device record that fails normalization no channel is
\* fetched, neither with its position nor with its serial, and the channel
\* map gets no entry under its device id; the channel loop only ever runs
\* for the device that was appended to the device list last.
C30_RejectedDeviceNotProbed ==
    /\ \A n \in DOMAIN calls : IsProbe(calls[n]) => calls[n].dev \notin Rejected
    /\ pc = "get_channel" =>
            /\ dev_i \notin Rejected
            /\ devices # <<>>
            /\ devices[Len(devices)] = from_api_device(cloud_devices[dev_i])
            /\ ProbedSerial = cloud_devices[dev_i].serial
            /\ \A d \in Rejected :
                    cloud_devices[d].device_id \notin DOMAIN device_channels_by_device
    /\ data # NoData =>
            /\ \A d \in Rejected :
                    cloud_devices[d].device_id \notin DOMAIN data.device_channels
            /\ Cardinality(DOMAIN data.device_channels) <=
                    Len(cloud_devices) - Cardinality(Rejected)

\* a batch of a rejected record and an accepted one: the cycle has fetched
\* channels of the second only and returned
C30_Witness ==
    /\ Returned
    /\ Rejected = {1}
    /\ Len(cloud_devices) = 2
    /\ DOMAIN data.device_channels = {"A"}
    /\ \E n \in DOMAIN calls : calls[n] = Probe(2, 1, "ok")
    /\ \A n \in DOMAIN calls : IsProbe(calls[n]) => calls[n].dev = 2

\* C31: a user fetch that returns a user without account id is the last
\* call of its cycle: the cycle ends as an update failure that names the
\* missing account id, neither the device list nor a channel is fetched,
\* the snapshot is the one of the cycle's start and the session handle is
\* still held.
C31_NoAccountFailsBeforeDevices ==
    \A n \in DOMAIN calls :
        calls[n] = Call("get_user", "no_account") =>
            /\ n = Len(calls)
            /\ pc = "idle"
            /\ in_flight = 0
            /\ ~last_update_success
            /\ last_exception = UpdateFailed("No account ID found for user")
            /\ \A m \in DOMAIN calls :
                    calls[m].call \notin {"get_devices", "channel"}
            /\ data = prev_data
            /\ api = Session

\* a later cycle, which did not authenticate, has ended at a user without
\* account id while a snapshot with a device is published
C31_Witness ==
    /\ calls = <<Call("get_user", "no_account")>>
    /\ pc = "idle"
    /\ refresh_no = "later"
    /\ api = Session
    /\ data # NoData
    /\ data.devices # <<>>

\* the record that normalization returned has, for every attribute of the
\* raw record, the raw record's value
Preserved == \A a \in DOMAIN arg.obj : ret.value[1][a] = arg.obj[a]

\* C32, as claimed: a record that normalization accepts keeps its data:
\* each attribute of the normalized device (serial, device id, label,
\* device name, firmware, battery, battery state, wifi strength) and of
\* the normalized channel (number, value, units, status, label) has the
\* value the raw record has for it.
C32_NormalizationPreservesAttributes ==
    (arg.fn \in {"from_api_device", "from_api_channel"} /\ ret.raises = <<>>) =>
        Preserved

\* what does hold of an accepted device record: every attribute but the
\* battery state is preserved, and the battery state is null
C32_AllButBatteryState ==
    (arg.fn \in {"from_api_device", "from_api_channel"} /\ ret.raises = <<>>) =>
        /\ \A a \in DOMAIN arg.obj \ {"battery_state"} : ret.value[1][a] = arg.obj[a]
        /\ arg.fn = "from_api_device" => ret.value[1].battery_state = None

\* the capability of a battery or signal sensor: the attribute its value
\* is read from
CapabilityOf(self) ==
    IF self.class = "BatterySensor" THEN "battery" ELSE "wifi_strength"

\* the device of the snapshot that a battery or signal sensor refers to,
\* with the capability of the sensor; <<>> if there is none
CapableDevice(self, self_data) ==
    SelectSeq(self_data.devices,
              LAMBDA d : /\ get_identifier(d) = get_identifier(self.device)
                         /\ d[CapabilityOf(self)] # None)

\* the listener call of sensor n has either stored the device of the
\* snapshot that has the capability, or left the record and raised
StoresOnlyCapable(n) ==
    LET self == entities[n]
        found == SelectSeq(data.devices,
                    LAMBDA d : get_identifier(d) = get_identifier(self.device))
    IN  IF found # <<>> /\ found[1][CapabilityOf(self)] # None
            THEN /\ entities'[n].device = found[1]
                 /\ dispatch'[n] = "written"
                 /\ ret' = ReturnNone
            ELSE /\ entities'[n] = self
                 /\ states'[n] = states[n]
                 /\ dispatch'[n] = "raised"
                 /\ ret'.raises # <<>>
                 /\ ret'.raises[1].type = "UpdateFailed"

\* C33: the device stored in a BatterySensor always has a battery level
\* and the one stored in a SignalSensor always has a wifi strength: a
\* listener call stores a device only if the snapshot holds the sensor's
\* device with that capability, and otherwise leaves the stored record
\* unchanged and raises UpdateFailed.
C33_StoredDeviceKeepsCapability ==
    [][\A n \in DOMAIN entities :
            /\ entities[n].class \in {"BatterySensor", "SignalSensor"} =>
                    /\ entities[n].device[CapabilityOf(entities[n])] # None
                    /\ entities'[n].device[CapabilityOf(entities[n])] # None
            /\ (Listens(n) /\ entities[n].class \in {"BatterySensor", "SignalSensor"}) =>
                    StoresOnlyCapable(n)]_vars

\* the battery sensor still holds the device with battery level 55 after
\* its listener was called on a snapshot in which the device has lost its
\* battery level; the call raised
C33_Witness ==
    /\ arg.fn = "_handle_coordinator_update"
    /\ entities[arg.entity].class = "BatterySensor"
    /\ data.devices # <<>>
    /\ data.devices[1].battery = None
    /\ entities[arg.entity].device.battery = "55"
    /\ dispatch[arg.entity] = "raised"
    /\ ret.raises # <<>>

\* C34, as claimed: the channel stored in a TemperatureSensor always has
\* unit "F" or "C", so that its native_unit_of_measurement does not
\* raise, and the channel stored in a HumiditySensor always has unit "H",
\* whatever the refreshes have brought.
C34_StoredUnitMatchesSensorKind ==
    \A n \in DOMAIN entities :
        /\ entities[n].class = "TemperatureSensor" =>
                /\ entities[n].device_channel.units \in {"F", "C"}
                /\ native_unit_of_measurement(entities[n]).raises = <<>>
        /\ entities[n].class = "HumiditySensor" =>
                entities[n].device_channel.units = "H"

\* the channel of the snapshot that a channel sensor refers to; <<>> if
\* there is none
ChannelFor(self, self_data) ==
    IF self.device_serial \in DOMAIN self_data.device_channels
        THEN SelectSeq(self_data.device_channels[self.device_serial],
                       LAMBDA c : c.number = self.device_channel.number)
        ELSE <<>>

\* C35, as claimed: the listener of a channel sensor stores the channel
\* found in the snapshot only if its status is "NORMAL"; when the channel
\* found has another status, the sensor keeps its record, no state is
\* written and the call raises UpdateFailed.
C35_FaultyChannelNotAdopted ==
    [][\A n \in DOMAIN entities :
            (/\ Listens(n)
             /\ entities[n].class \in {"TemperatureSensor", "HumiditySensor"}
             /\ ChannelFor(entities[n], data) # <<>>
             /\ ChannelFor(entities[n], data)[1].status # "NORMAL") =>
                /\ entities'[n] = entities[n]
                /\ states' = states
                /\ dispatch'[n] = "raised"]_vars

\* the channel was fetched with this serial: the cloud's record of channel
\* number n of serial s has the value s \o n
FetchedWith(device_channel, serial) ==
    device_channel.value = serial \o device_channel.number

\* C36, as claimed: in a published snapshot the channel list kept under the
\* identifier of a device holds channels fetched with the serial of that
\* device, so the device that get_device_by_id(id) returns and a channel
\* that get_device_channel_by_id(id, n) returns are of the same physical
\* device, whatever the device list, two records with one identifier
\* included.
C36_ChannelsBelongToTheirDevice ==
    data # NoData =>
        /\ \A k \in DOMAIN data.devices :
            \A c \in Range(data.device_channels[get_identifier(data.devices[k])]) :
                FetchedWith(c, data.devices[k].serial)
        /\ \A id \in DOMAIN data.device_channels :
            \A c \in Range(data.device_channels[id]) :
                /\ get_device_by_id(data, id).value # <<>>
                /\ get_device_channel_by_id(data, id, c.number).value # <<>>
                /\ FetchedWith(get_device_channel_by_id(data, id, c.number).value[1],
                               get_device_by_id(data, id).value[1].serial)

\* validation of the submission of this step: build_auth and get_user
\* both returned
Validated == arg'.auth.raises = <<>> /\ arg'.user.raises = <<>>

\* the error validation met first
FirstError ==
    IF arg'.auth.raises # <<>> THEN arg'.auth.raises[1] ELSE arg'.user.raises[1]

\* the error code the form is to show for it
ErrorCodeOf(exc) ==
    IF exc = AuthenticationError THEN "invalid_auth"
    ELSE IF exc = ConnectionError THEN "cannot_connect"
    ELSE "unknown"

\* this step has added a config entry
EntryCreated == config_entries' # config_entries

\* the step ends with the form shown again with the error code of the
\* error met, no entry created and the flow open for another submission
FormShownAgain ==
    /\ ret'.value[1].type = "form"
    /\ ret'.value[1].step_id = "user"
    /\ "base" \in DOMAIN ret'.value[1].errors
    /\ ret'.value[1].errors["base"] = ErrorCodeOf(FirstError)
    /\ config_entries' = config_entries
    /\ flow' = "user"

\* an entry of the account the submission is for exists
AlreadyConfigured ==
    \E e \in config_entries : e.unique_id = UserIdOf(arg'.user_input[1].email)

\* C37, as claimed: a submission of the credentials form creates a config
\* entry iff authentication and user fetch both completed without error;
\* after an authentication error the form is shown again with
\* "invalid_auth", after a connection error with "cannot_connect", after
\* any other error with "unknown", no entry being created and the flow
\* staying open for another submission.
C37_EntryIffValidated ==
    [][flow = "user" =>
            /\ EntryCreated <=> Validated
            /\ ~Validated => FormShownAgain]_vars

\* C37, amended: the entry is created iff validation completed without
\* error and no entry of the same user id exists; when one exists the flow
\* is aborted as "already_configured" and no entry is created; the error
\* cases are as claimed.
C37_EntryIffValidatedAndNew ==
    [][flow = "user" =>
            /\ EntryCreated <=> (Validated /\ ~AlreadyConfigured)
            /\ EntryCreated =>
                    config_entries' = config_entries \cup
                        {[unique_id |-> UserIdOf(arg'.user_input[1].email),
                          title |-> "ThermoWorks Cloud",
                          data |-> arg'.user_input[1]]}
            /\ (Validated /\ AlreadyConfigured) =>
                    /\ ret' = Return(AbortFlow)
                    /\ config_entries' = config_entries
                    /\ flow' = "done"
            /\ ~Validated => FormShownAgain]_vars

\* credentials of an account that has an entry were submitted again, with
\* another password: validation succeeded, the flow was aborted and the
\* entry is the old one
C37_Witness ==
    /\ arg.fn = "async_step_user"
    /\ arg.user_input # <<>>
    /\ arg.auth.raises = <<>>
    /\ arg.user.raises = <<>>
    /\ ret = Return(AbortFlow)
    /\ flow = "done"
    /\ config_entries = {[unique_id |-> UserIdOf(arg.user_input[1].email),
                          title |-> "ThermoWorks Cloud",
                          data |-> [email |-> arg.user_input[1].email,
                                    password |-> "pw1"]]}
    /\ arg.user_input[1].password = "pw2"

=============================================================================
